---- MODULE Spec2Model ----
(***************************************************************************)
(* A model of b4os-backend/src/lib/classroom_sync.py: the name normalizer  *)
(* (format_assignment_name), the record reconciler                          *)
(* (process_assignments_in_memory), the sync writers (sync_*_to_supabase)   *)
(* and the leaderboard ranker (refresh_admin_leaderboard).                  *)
(*                                                                         *)
(* Conventions.  An optional value (Python None / pandas NaN / SQL NULL)   *)
(* is a set with at most one element: None is {} and a present value v is  *)
(* {v}.  A Python str that the code inspects character by character is a   *)
(* sequence of one-character strings.  A timestamp is a number of seconds. *)
(***************************************************************************)
EXTENDS Integers, Sequences, FiniteSets, TLC

VARIABLES
    \* ---- format_assignment_name called on its own (NameSpec) ----
    nameIn,      \* the argument `name`
    nameOut,     \* result of format_assignment_name(name)
    nameOut2,    \* result of format_assignment_name applied to nameOut
    namePc,      \* "in" | "once" | "twice"
    \* ---- _parse_assignments_list called on its own (ParseSpec) ----
    listing,     \* the argument `output`
    parsed,      \* what the call returned or raised, once made
    \* ---- the sink: the Supabase tables, each a function of its natural key ----
    students,    \* zzz_students: github_username -> row
    assignments, \* zzz_assignments: name -> row
    grades,      \* zzz_grades: <<github_username, assignment_name>> -> row
    attempts,    \* zzz_assignment_attempts: <<user_id, assignment_id>> -> row
    leaderboard, \* zzz_admin_leaderboard: github_username -> row
    \* ---- refresh_admin_leaderboard ----
    leaderboard_data, \* the local list of entries, sorted and ranked
    lbPos,            \* index of the first entry of the batch being written
    upPos,            \* index of the entry the per-record fallback is at (0: none)
    offered,          \* the write requests the refresh has made to the leaderboard
    \* ---- the run: configuration and source data ----
    pc,               \* where the program is
    run,              \* 1 for the first run, 2 for the re-run on the same source
    max_retries,      \* config.max_retries
    source,           \* what the source readers return: per assignment, its
                      \* display name and its grade download
    aPos,             \* index in source of the assignment being processed
    rPos,             \* index of the next grade row of that assignment
    \* ---- process_assignments_in_memory: the accumulators ----
    formatted_name,
    assignment_info,
    all_grades,
    students_with_repo_info,
    assignment_fork_dates,
    assignment_fork_updated,
    assignment_attempts,
    \* ---- sync_*_to_supabase: the call in progress ----
    phase,            \* "prepare" | "upsert"
    payload,          \* the prepared list of records
    attempt,          \* upsert attempts made in the current call
    \* ---- history ----
    sent,             \* the payloads the current call has sent
    result,           \* per sink operation of the run, how it ended
    error,            \* the exception process_assignments_in_memory raised, if any
    failed,           \* some sink operation has failed since the start
    snapshot          \* the tables as the first run left them

nameVars == <<nameIn, nameOut, nameOut2, namePc, listing, parsed>>
sinkVars == <<students, assignments, grades, attempts, leaderboard>>
lbVars == <<leaderboard_data, lbPos, upPos, offered>>
srcVars == <<run, max_retries, source>>
accVars ==
    <<formatted_name, assignment_info, all_grades, students_with_repo_info,
      assignment_fork_dates, assignment_fork_updated, assignment_attempts>>
posVars == <<aPos, rPos>>
callVars == <<phase, payload, attempt, sent>>
histVars == <<result, error, failed, snapshot>>

None == {}
Some(v) == {v}
IsNone(x) == x = {}
Val(x) == CHOOSE v \in x : TRUE

(***************************************************************************)
(* format_assignment_name                                                  *)
(***************************************************************************)

\* The characters the model draws names from: two upper-case letters, their
\* lower-case forms, further lower-case letters and digits, the space, the
\* tab (whitespace that is not a space), the hyphen, and punctuation.
UpperChars == {"A", "P"}
LowerChars == {"a", "p", "r", "t"}
DigitChars == {"1", "2"}
WhitespaceChars == {" ", "\t"}
PunctChars == {"!", ":"}
Hyphen == "-"

\* str.lower() on one character.
LowerChar(c) ==
    CASE c = "A" -> "a"
      [] c = "P" -> "p"
      [] OTHER -> c

\* name.lower()
LowerStr(s) == [i \in 1..Len(s) |-> LowerChar(s[i])]

\* A normalizer whose first substitution keeps the space only, not every
\* whitespace character.
KeptCharSpaceOnly(c) == c \in LowerChars \cup DigitChars \cup {" ", Hyphen}

\* The complement of the class [^a-z0-9\s-]: what re.sub(..., '') keeps.
KeptChar(c) == c \in LowerChars \cup DigitChars \cup WhitespaceChars \cup {Hyphen}

\* re.sub(r'[^a-z0-9\s-]', '', formatted)
StripSpecial(s) == SelectSeq(s, KeptChar)

\* re.sub(pat+, '-', s) for a one-character class: every maximal run of
\* characters of `class` becomes one hyphen.
RECURSIVE SubRuns(_, _)
SubRuns(s, class) ==
    IF s = <<>> THEN <<>>
    ELSE IF Head(s) \in class
         THEN IF Len(s) > 1 /\ s[2] \in class
              THEN SubRuns(Tail(s), class)
              ELSE <<Hyphen>> \o SubRuns(Tail(s), class)
         ELSE <<Head(s)>> \o SubRuns(Tail(s), class)

\* re.sub(r'\s+', '-', formatted)
SubWhitespace(s) == SubRuns(s, WhitespaceChars)

\* re.sub(r'-+', '-', formatted)
SubHyphens(s) == SubRuns(s, {Hyphen})

RECURSIVE LStrip(_, _)
LStrip(s, c) == IF s # <<>> /\ Head(s) = c THEN LStrip(Tail(s), c) ELSE s

RECURSIVE RStrip(_, _)
RStrip(s, c) ==
    IF s # <<>> /\ s[Len(s)] = c THEN RStrip(SubSeq(s, 1, Len(s) - 1), c) ELSE s

\* formatted.strip('-')
StripHyphens(s) == RStrip(LStrip(s, Hyphen), Hyphen)

Raised(e) == [ok |-> FALSE, err |-> e, val |-> <<>>]
Returned(v) == [ok |-> TRUE, err |-> "", val |-> v]

\* format_assignment_name(name): raises DataValidationError on an empty
\* name, else lower, strip, whitespace to hyphen, collapse hyphens, trim.
format_assignment_name(name) ==
    IF name = <<>>
    THEN Raised("DataValidationError")
    ELSE Returned(StripHyphens(SubHyphens(SubWhitespace(StripSpecial(LowerStr(name))))))

(***************************************************************************)
(* _parse_assignments_list                                                 *)
(***************************************************************************)

Tab == "\t"
Newline == "\n"

\* The characters str.strip() removes.
StripChars == {" ", Tab, Newline}

\* s.strip()
RECURSIVE Strip(_)
Strip(s) ==
    IF s = <<>> THEN s
    ELSE IF Head(s) \in StripChars THEN Strip(Tail(s))
    ELSE IF s[Len(s)] \in StripChars THEN Strip(SubSeq(s, 1, Len(s) - 1))
    ELSE s

\* s.split(sep): the pieces between the separators, one piece without any.
RECURSIVE Split(_, _)
Split(s, sep) ==
    LET at == {i \in 1..Len(s) : s[i] = sep}
    IN  IF at = {} THEN <<s>>
        ELSE LET i == CHOOSE j \in at : \A k \in at : j <= k
             IN  <<SubSeq(s, 1, i - 1)>> \o Split(SubSeq(s, i + 1, Len(s)), sep)

\* len(lines) < 4, lines[3:], len(parts) >= 7
MinLines == 4
HeaderLines == 3
MinFields == 7

\* The loop over lines[3:]: a non-blank line with at least 7 fields gives
\* (parts[0], parts[1], parts[6]), any other line nothing.
RECURSIVE ParseDataLines(_)
ParseDataLines(ls) ==
    IF ls = <<>> THEN <<>>
    ELSE LET parts == Split(Head(ls), Tab)
         IN  (IF Strip(Head(ls)) # <<>> /\ Len(parts) >= MinFields
              THEN <<<<parts[1], parts[2], parts[7]>>>>
              ELSE <<>>) \o ParseDataLines(Tail(ls))

\* _parse_assignments_list(output)
parse_assignments_list(output) ==
    LET lines == Split(Strip(output), Newline)
    IN  IF Len(lines) < MinLines
        THEN Raised("DataValidationError")
        ELSE Returned(ParseDataLines(SubSeq(lines, HeaderLines + 1, Len(lines))))

(***************************************************************************)
(* NameSpec: format_assignment_name on every non-empty name of at most     *)
(* MaxNameLen characters, then on its own result.                          *)
(***************************************************************************)
MaxNameLen == 3

NameChars ==
    UpperChars \cup LowerChars \cup DigitChars \cup WhitespaceChars
        \cup PunctChars \cup {Hyphen}

\* The inputs: a reduced alphabet keeps the state space small while it
\* holds one character of every class the regular expressions tell apart.
NameAlphabet == {"A", "a", "1", " ", "\t", "!", Hyphen}

NamesUpTo(n) == UNION {[1..k -> NameAlphabet] : k \in 1..n}

NameIdle ==
    /\ nameIn = <<>>
    /\ nameOut = Raised("")
    /\ nameOut2 = Raised("")
    /\ namePc = "idle"
    /\ listing = <<>>
    /\ parsed = None

NameArgs ==
    /\ nameIn \in NamesUpTo(MaxNameLen)
    /\ nameOut = Raised("")
    /\ nameOut2 = Raised("")
    /\ namePc = "in"
    /\ listing = <<>>
    /\ parsed = None

FormatName ==
    /\ namePc = "in"
    /\ nameOut' = format_assignment_name(nameIn)
    /\ namePc' = "once"
    /\ UNCHANGED <<nameIn, nameOut2, listing, parsed>>

FormatAgain ==
    /\ namePc = "once"
    /\ nameOut.ok
    /\ nameOut2' = format_assignment_name(nameOut.val)
    /\ namePc' = "twice"
    /\ UNCHANGED <<nameIn, nameOut, listing, parsed>>



(***************************************************************************)
(* refresh_admin_leaderboard: the computation                              *)
(***************************************************************************)

\* The order of str comparison on the usernames of the model.
UserSeq == <<"u1", "u2", "u3">>
Users == {UserSeq[i] : i \in 1..Len(UserSeq)}
UserOrd(u) == CHOOSE i \in 1..Len(UserSeq) : UserSeq[i] = u

\* The sort key that stands for a null resolution time.
NullTimeSentinel == 999999
SecondsPerHour == 3600

\* int(x) of the quotient a / b, b > 0: truncation toward zero.
TruncDiv(a, b) == IF a >= 0 THEN a \div b ELSE -((-a) \div b)

\* round(n / d) for n >= 0, d > 0: Python 3 rounds a half to the even
\* neighbour.  The float quotient is modelled by the exact one.
RoundHalfEven(n, d) ==
    LET q == n \div d
        r == n % d
    IN  IF 2 * r < d THEN q
        ELSE IF 2 * r > d THEN q + 1
        ELSE IF q % 2 = 0 THEN q ELSE q + 1

\* calculate_resolution_time(created_at, updated_at)
calculate_resolution_time(created_at, updated_at) ==
    IF IsNone(created_at) \/ IsNone(updated_at)
    THEN None
    ELSE Some(TruncDiv(Val(updated_at) - Val(created_at), SecondsPerHour))

\* Truthiness of an optional number: `if x` is false for None and for 0.
Truthy(x) == ~IsNone(x) /\ Val(x) # 0

\* sum(...) of the values of a function.
RECURSIVE SumFn(_)
SumFn(f) ==
    IF DOMAIN f = {} THEN 0
    ELSE LET x == CHOOSE y \in DOMAIN f : TRUE
         IN  f[x] + SumFn([y \in DOMAIN f \ {x} |-> f[y]])

RECURSIVE Gcd(_, _)
Gcd(a, b) == IF b = 0 THEN a ELSE Gcd(b, a % b)

\* The least common multiple of a set of positive numbers (1 for none).
RECURSIVE Lcm(_)
Lcm(S) ==
    IF S = {} THEN 1
    ELSE LET x == CHOOSE y \in S : TRUE
             l == Lcm(S \ {x})
         IN  (x \div Gcd(x, l)) * l

SetMax(S, default) == IF S = {} THEN default ELSE CHOOSE m \in S : \A x \in S : x <= m

\* The maximum over the grade rows of every assignment.
MaxAwardedOfAny(grd, name) ==
    SetMax({Val(grd[k].points_awarded) :
                k \in {j \in DOMAIN grd : Truthy(grd[j].points_awarded)}}, 0)

\* max(int(points_awarded) for the grade rows of `name` with a truthy
\* points_awarded, default=0)
MaxAwarded(grd, name) ==
    SetMax({Val(grd[k].points_awarded) :
                k \in {j \in DOMAIN grd : j[2] = name /\ Truthy(grd[j].points_awarded)}}, 0)

\* assignment_points after the fallback loop: the stored points_available
\* where it is truthy, else the maximum awarded where that is positive.
\* An assignment with neither has no entry.
assignment_points(asg, grd) ==
    LET stored == {n \in DOMAIN asg : Truthy(asg[n].points_available)}
        graded == {k[2] : k \in DOMAIN grd}
        inferred == {n \in graded \ stored : MaxAwarded(grd, n) > 0}
    IN  [n \in stored \cup inferred |->
            IF n \in stored THEN Val(asg[n].points_available) ELSE MaxAwarded(grd, n)]

\* len(assignments_result.data) if assignments_result.data else 1
total_system_assignments(asg) ==
    IF DOMAIN asg = {} THEN 1 ELSE Cardinality(DOMAIN asg)

\* A lookup that counts 1 for an assignment without points.
PointsOfOrOne(ap, name) == IF name \in DOMAIN ap THEN ap[name] ELSE 1

\* assignment_points.get(name, 0)
PointsOf(ap, name) == IF name \in DOMAIN ap THEN ap[name] ELSE 0

\* A progress that divides by the student's own number of grades.
ProgressOwnCount(grd, ap, mine, n) ==
    LET counted == {k \in mine : Truthy(grd[k].points_awarded) /\ PointsOf(ap, k[2]) > 0}
        den == Lcm({ap[k[2]] : k \in counted})
        num == SumFn([k \in counted |->
                        100 * Val(grd[k].points_awarded) * (den \div ap[k[2]])])
    IN  RoundHalfEven(num, den * (IF mine = {} THEN 1 ELSE Cardinality(mine)))

\* round(sum_of_progresss / total_system_assignments), the sum taken over
\* the student's grades with a truthy points_awarded and a positive
\* assignment_points, each term points_awarded / points * 100.  The sum of
\* quotients is taken exactly, over a common denominator.
Progress(grd, ap, mine, n) ==
    LET counted == {k \in mine : Truthy(grd[k].points_awarded) /\ PointsOf(ap, k[2]) > 0}
        den == Lcm({ap[k[2]] : k \in counted})
        num == SumFn([k \in counted |->
                        100 * Val(grd[k].points_awarded) * (den \div ap[k[2]])])
    IN  RoundHalfEven(num, den * n)

\* One leaderboard_entry (without ranking_position).
leaderboard_entry(u, stu, asg, grd) ==
    LET ap == assignment_points(asg, grd)
        mine == {k \in DOMAIN grd : k[1] = u}
        awarded == [k \in mine |->
                      IF Truthy(grd[k].points_awarded) THEN Val(grd[k].points_awarded) ELSE 0]
        possible == [k \in mine |-> PointsOf(ap, k[2])]
    IN  [github_username |-> u,
         fork_created_at |-> stu[u].fork_created_at,
         last_updated_at |-> stu[u].last_updated_at,
         resolution_time_hours |->
            IF stu[u].has_fork
            THEN calculate_resolution_time(stu[u].fork_created_at, stu[u].last_updated_at)
            ELSE None,
         has_fork |-> stu[u].has_fork,
         total_score |-> SumFn(awarded),
         total_possible |-> SumFn(possible),
         percentage |-> Progress(grd, ap, mine, total_system_assignments(asg)),
         assignments_completed |-> Cardinality({k[2] : k \in mine})]

\* The first component of the sort key.
TimeKey(e) ==
    IF IsNone(e.resolution_time_hours) THEN NullTimeSentinel
    ELSE Val(e.resolution_time_hours)

\* A sort key whose first component puts the null times first.
SortKeyNullFirst(e) ==
    <<IF IsNone(e.resolution_time_hours) THEN -NullTimeSentinel
      ELSE Val(e.resolution_time_hours),
      -e.percentage, UserOrd(e.github_username)>>

\* A sort key without the username.
SortKeyNoName(e) == <<TimeKey(e), -e.percentage, 0>>

\* key=lambda x: (time or 999999, -x['_progress'], x['github_username'])
SortKey(e) == <<TimeKey(e), -e.percentage, UserOrd(e.github_username)>>

\* Tuple comparison of two sort keys.
KeyLess(a, b) ==
    \/ a[1] < b[1]
    \/ a[1] = b[1] /\ a[2] < b[2]
    \/ a[1] = b[1] /\ a[2] = b[2] /\ a[3] < b[3]

\* leaderboard_data.sort(key=...): the entries in ascending key order.
RECURSIVE SortEntries(_)
SortEntries(S) ==
    IF S = {} THEN <<>>
    ELSE LET m == CHOOSE x \in S : \A y \in S \ {x} : KeyLess(SortKey(x), SortKey(y))
         IN  <<m>> \o SortEntries(S \ {m})

\* for i, student in enumerate(leaderboard_data, 1): ranking_position = i
Ranked(sorted) ==
    [i \in 1..Len(sorted) |->
        [github_username |-> sorted[i].github_username,
         fork_created_at |-> sorted[i].fork_created_at,
         last_updated_at |-> sorted[i].last_updated_at,
         resolution_time_hours |-> sorted[i].resolution_time_hours,
         has_fork |-> sorted[i].has_fork,
         total_score |-> sorted[i].total_score,
         total_possible |-> sorted[i].total_possible,
         percentage |-> sorted[i].percentage,
         assignments_completed |-> sorted[i].assignments_completed,
         ranking_position |-> i]]

\* The ranked leaderboard_data computed from the three tables.
ComputeLeaderboard(stu, asg, grd) ==
    Ranked(SortEntries({leaderboard_entry(u, stu, asg, grd) : u \in DOMAIN stu}))

\* The orders in which the select on zzz_students may return its rows.
RowOrders(stu) ==
    {o \in [1..Cardinality(DOMAIN stu) -> DOMAIN stu] :
        \A i, j \in DOMAIN o : o[i] = o[j] => i = j}

\* list.sort is stable: an entry goes after the entries whose key is not
\* greater than its own.
RECURSIVE InsertSorted(_, _)
InsertSorted(sorted, e) ==
    IF sorted = <<>> THEN <<e>>
    ELSE IF KeyLess(SortKey(e), SortKey(Head(sorted))) THEN <<e>> \o sorted
    ELSE <<Head(sorted)>> \o InsertSorted(Tail(sorted), e)

\* leaderboard_data.sort(key=...) on the list in the order it was built.
RECURSIVE StableSort(_)
StableSort(entries) ==
    IF entries = <<>> THEN <<>>
    ELSE InsertSorted(StableSort(SubSeq(entries, 1, Len(entries) - 1)),
                      entries[Len(entries)])

\* leaderboard_data built in the order of the student rows, sorted and
\* ranked.
ComputeLeaderboardIn(order, stu, asg, grd) ==
    Ranked(StableSort([i \in 1..Len(order) |-> leaderboard_entry(order[i], stu, asg, grd)]))

(***************************************************************************)
(* The sink: rows, and what an upsert does                                 *)
(***************************************************************************)

\* The empty table (and the empty dict).
Empty == [x \in {} |-> {}]

\* Every function from a subset of D to R.
PartialFunctions(D, R) == UNION {[S -> R] : S \in SUBSET D}

\* The stamp of the rows that an earlier run wrote.
EarlierStamp == 0

\* A row of zzz_students (its key apart).
StudentRow(has_fork, created, updated) ==
    [fork_created_at |-> created, last_updated_at |-> updated,
     resolution_time_hours |-> calculate_resolution_time(created, updated),
     has_fork |-> has_fork, updated_at |-> Some(EarlierStamp)]

\* A row of zzz_grades.
GradeRow(awarded, created, updated) ==
    [points_awarded |-> awarded, fork_created_at |-> created, fork_updated_at |-> updated]

\* A row of zzz_assignments.
AssignmentRow(points) == [points_available |-> points, updated_at |-> Some(EarlierStamp)]

\* What a column holds in a newly inserted row when the request does not
\* name the column.  No sync writer ever names has_fork.
StudentDefaults ==
    [fork_created_at |-> None, last_updated_at |-> None, resolution_time_hours |-> None,
     has_fork |-> FALSE, updated_at |-> None]
GradeDefaults == [points_awarded |-> None, fork_created_at |-> None, fork_updated_at |-> None]
AssignmentDefaults == [points_available |-> None, updated_at |-> None]
AttemptDefaults ==
    [repo_url |-> None, total_attempts |-> None, successful_attempts |-> None,
     failed_attempts |-> None, first_attempt_at |-> None, last_attempt_at |-> None,
     fork_created_at |-> None, fork_updated_at |-> None, updated_at |-> None]

\* The on_conflict columns of the upserts.
StudentConflict == <<"github_username">>
AssignmentConflict == <<"name">>
GradeConflict == <<"github_username", "assignment_name">>
AttemptConflict == <<"user_id", "assignment_id">>

\* The conflict key of a record: the value of the column, or the tuple of
\* the values of the columns.
ConflictKey(r, on_conflict) ==
    IF Len(on_conflict) = 1 THEN r[on_conflict[1]]
    ELSE [i \in 1..Len(on_conflict) |-> r[on_conflict[i]]]

\* The keys of a payload.
PayloadKeys(p, on_conflict) == {ConflictKey(p[i], on_conflict) : i \in 1..Len(p)}

\* INSERT ... ON CONFLICT DO UPDATE rejects a request that proposes two rows
\* with the same conflict key ("cannot affect row a second time").
UpsertAccepted(p, on_conflict) ==
    \A i, j \in 1..Len(p) :
        ConflictKey(p[i], on_conflict) = ConflictKey(p[j], on_conflict) => i = j

\* An upsert that adds the points of the request to the points of the row.
UpsertRowAddsPoints(old, rec, named, defaults) ==
    [c \in DOMAIN defaults |->
        IF c \in named
        THEN IF c \in DOMAIN rec
             THEN IF c = "points_awarded" /\ ~IsNone(old) /\ ~IsNone(rec[c])
                     /\ ~IsNone(Val(old)[c])
                  THEN Some(Val(Val(old)[c]) + Val(rec[c]))
                  ELSE rec[c]
             ELSE None
        ELSE IF IsNone(old) THEN defaults[c] ELSE Val(old)[c]]

\* The row an upsert leaves for a key: old is the row the table has for it
\* (None when it has none), rec the record of the request, named the columns
\* the request names.  A named column takes the record's value, NULL when
\* the record lacks it; a column the request does not name keeps its value
\* in an existing row and takes its default in a new row.
UpsertRow(old, rec, named, defaults) ==
    [c \in DOMAIN defaults |->
        IF c \in named
        THEN IF c \in DOMAIN rec THEN rec[c] ELSE None
        ELSE IF IsNone(old) THEN defaults[c] ELSE Val(old)[c]]

\* table.upsert(p, on_conflict=key).execute() when it succeeds.  The request
\* names the columns that occur in some record of the list.
Upsert(table, p, on_conflict, defaults) ==
    LET named == UNION {DOMAIN p[i] : i \in 1..Len(p)}
        keys == PayloadKeys(p, on_conflict)
        rec(k) == p[CHOOSE i \in 1..Len(p) : ConflictKey(p[i], on_conflict) = k]
        old(k) == IF k \in DOMAIN table THEN Some(table[k]) ELSE None
    IN  [k \in DOMAIN table \cup keys |->
            IF k \in keys THEN UpsertRow(old(k), rec(k), named, defaults) ELSE table[k]]

\* An optional column of a payload record: present only if the value is.
OptionalColumn(c, v) == IF IsNone(v) THEN Empty ELSE (c :> v)


(***************************************************************************)
(* The source data of a run                                                *)
(***************************************************************************)

\* The usernames of the grade exports.
SyncUsers == {"u1", "u2"}

\* At most this many assignments in the classroom's listing.
MaxAssignments == 2

\* At most this many grade rows over all the assignments of a run.
MaxRows == 2

\* The display name of the i-th listed assignment: the first is "A"; a
\* later one is "a", which normalizes to the key of "A", or "P".
SourceNames(i) == IF i = 1 THEN {<<"A">>} ELSE {<<"a">>, <<"P">>}

\* created_at and updated_at of the repository of a row of the i-th
\* assignment, as get_repository_info returns them.
RepoCreatedAt(i) == 3600 * i
RepoUpdatedAt(i) == 3600 * i + 9000 * i

\* What get_workflow_runs returns for a repository with runs.
WorkflowInfo(i) ==
    [total_attempts |-> 2 + i, successful_attempts |-> 1, failed_attempts |-> 1 + i,
     first_attempt_at |-> Some(RepoCreatedAt(i) + 60),
     last_attempt_at |-> Some(RepoUpdatedAt(i) - 60)]

\* One row of a grade export together with what the two fetches for its
\* repository return.  url is "none" when the export has no
\* student_repository_url column (row.get gives ''), else "url"; repo is
\* "fail" (get_repository_info returned None), "notfork" or "fork";
\* workflow tells whether get_workflow_runs returned data.
SourceRow(u, awarded, available, url, repo, workflow) ==
    [github_username |-> u, points_awarded |-> awarded, points_available |-> available,
     url |-> url, repo |-> repo, workflow |-> workflow]

\* The rows of an export with (TRUE) or without the repository column.
SourceRows(url_column) ==
    {SourceRow(u, aw, Some(10), k[1], k[2], k[3]) :
        u \in SyncUsers, aw \in {Some(10), None},
        k \in IF url_column
              THEN {<<"url", "fail", FALSE>>, <<"url", "fail", TRUE>>,
                    <<"url", "notfork", FALSE>>, <<"url", "notfork", TRUE>>,
                    <<"url", "fork", FALSE>>, <<"url", "fork", TRUE>>}
              ELSE {<<"none", "fail", FALSE>>}}

\* The non-empty DataFrames of at most n rows: an export has one row per
\* student of the roster.
DataFrames(n) ==
    UNION {{df \in [1..k -> SourceRows(c)] :
                \A i, j \in 1..k : df[i].github_username = df[j].github_username => i = j} :
            k \in 1..n, c \in BOOLEAN}

\* download_grades_to_dataframe returned None (ok = FALSE) or a DataFrame.
SourceAssignment(name, ok, df) == [name |-> name, ok |-> ok, df |-> df]

RECURSIVE RowCount(_)
RowCount(src) ==
    IF src = <<>> THEN 0 ELSE Len(Head(src).df) + RowCount(Tail(src))

(***************************************************************************)
(* process_assignments_in_memory: the reconciliation                       *)
(***************************************************************************)

\* The points_available of the first record of the export.
FirstAvailable(df) == df[1].points_available

\* df['points_available'].max(): the maximum of the non-null values, NaN
\* (None) when there is none.
MaxAvailable(df) ==
    LET vals == {Val(df[i].points_available) :
                    i \in {j \in 1..Len(df) : ~IsNone(df[j].points_available)}}
    IN  IF vals = {} THEN None ELSE Some(CHOOSE m \in vals : \A v \in vals : v <= m)

\* df[df['points_available'] > 0]['points_available'].iloc[0], None when
\* the selection is empty.
FirstPositiveAvailable(df) ==
    LET pos == {i \in 1..Len(df) :
                    ~IsNone(df[i].points_available) /\ Val(df[i].points_available) > 0}
    IN  IF pos = {} THEN None
        ELSE df[CHOOSE i \in pos : \A j \in pos : i <= j].points_available

\* 'part-2' in formatted_name
Part2 == <<"p", "a", "r", "t", Hyphen, "2">>
ContainsPart2(key) ==
    \E i \in 1..Len(key) :
        i + Len(Part2) - 1 <= Len(key) /\ SubSeq(key, i, i + Len(Part2) - 1) = Part2

\* The points a Part 2 assignment gets when its export has none.
Part2DefaultPoints == 100

\* The points_available stored with the assignment.
InferPointsAvailable(df, key) ==
    LET m == MaxAvailable(df)
    IN  IF IsNone(m) \/ Val(m) = 0
        THEN IF ~IsNone(FirstPositiveAvailable(df)) THEN FirstPositiveAvailable(df)
             ELSE IF ContainsPart2(key) THEN Some(Part2DefaultPoints)
             ELSE None
        ELSE m

\* A student aggregate of students_with_repo_info.
Aggregate(u, created, updated, has_fork) ==
    [github_username |-> u, fork_created_at |-> created, last_updated_at |-> updated,
     resolution_time_hours |-> calculate_resolution_time(created, updated),
     has_fork |-> has_fork]

\* d[k] = v on a dict.
DictSet(d, k, v) == [x \in DOMAIN d \cup {k} |-> IF x = k THEN v ELSE d[x]]

\* d.get(k), None when absent.
DictGet(d, k) == IF k \in DOMAIN d THEN Some(d[k]) ELSE None

\* The grade downloads the next assignment may have: anything the bounds
\* allow in the first run, what the first run saw in the re-run.
NextAssignments ==
    IF run = 1
    THEN IF Len(source) < MaxAssignments
         THEN {SourceAssignment(n, FALSE, <<>>) : n \in SourceNames(Len(source) + 1)}
                \cup {SourceAssignment(n, TRUE, df) :
                        n \in SourceNames(Len(source) + 1),
                        df \in DataFrames(MaxRows - RowCount(source))}
         ELSE {}
    ELSE IF aPos < Len(source) THEN {source[aPos + 1]} ELSE {}

\* The check of the download is left out.
HasGradesOrNone(a) == TRUE

\* if df is not None and not df.empty
HasGrades(a) == a.ok

\* One iteration of the loop over assignment_data up to the loop over the
\* rows: download the grades; without data go on to the next assignment,
\* else format the name and store the assignment info.
DownloadGrades ==
    /\ pc = "download"
    /\ \E a \in NextAssignments :
          LET fmt == format_assignment_name(a.name) IN
          /\ source' = IF run = 1 THEN Append(source, a) ELSE source
          /\ aPos' = aPos + 1
          /\ IF HasGrades(a) /\ fmt.ok
             THEN /\ formatted_name' = fmt.val
                  /\ assignment_info' =
                        Append(assignment_info,
                               [name |-> fmt.val,
                                points_available |-> InferPointsAvailable(a.df, fmt.val)])
                  /\ rPos' = 1
                  /\ pc' = "rows"
             ELSE UNCHANGED <<formatted_name, assignment_info, rPos, pc>>
    /\ UNCHANGED <<nameVars, sinkVars, lbVars, run, max_retries, all_grades,
                   students_with_repo_info, assignment_fork_dates, assignment_fork_updated,
                   assignment_attempts, callVars, histVars>>

\* The usernames that have an aggregate.
AggregatedUsers(aggs) == {aggs[i].github_username : i \in 1..Len(aggs)}

\* students_with_repo_info[github_username] = aggregate, whatever it holds.
SetAggregate(aggs, agg) ==
    IF agg.github_username \in AggregatedUsers(aggs)
    THEN [i \in 1..Len(aggs) |->
            IF aggs[i].github_username = agg.github_username THEN agg ELSE aggs[i]]
    ELSE Append(aggs, agg)

\* if github_username not in students_with_repo_info: ... = aggregate
SetDefaultAggregate(aggs, agg) ==
    IF agg.github_username \in AggregatedUsers(aggs) THEN aggs ELSE Append(aggs, agg)

\* students_with_repo_info after the row of the i-th assignment: nothing
\* without a repository URL; else the first aggregate of a username stays.
RowAggregates(aggs, row, i) ==
    IF row.url = "none" THEN aggs
    ELSE IF row.repo = "fork"
    THEN SetDefaultAggregate(aggs,
            Aggregate(row.github_username, Some(RepoCreatedAt(i)), Some(RepoUpdatedAt(i)), TRUE))
    ELSE SetDefaultAggregate(aggs, Aggregate(row.github_username, None, None, FALSE))

\* The row has a repository whose metadata fetch succeeded.
HasRepoInfo(row) == row.url # "none" /\ row.repo # "fail"

\* The row has a repository that the metadata fetch reports as a fork.
IsForkRow(row) == row.url # "none" /\ row.repo = "fork"

\* The attempt record of a fork row with workflow data.
AttemptRecord(row, key, i) ==
    [github_username |-> row.github_username,
     assignment_name |-> key,
     repo_url |-> Some(<<row.github_username, i>>),
     total_attempts |-> Some(WorkflowInfo(i).total_attempts),
     successful_attempts |-> Some(WorkflowInfo(i).successful_attempts),
     failed_attempts |-> Some(WorkflowInfo(i).failed_attempts),
     first_attempt_at |-> WorkflowInfo(i).first_attempt_at,
     last_attempt_at |-> WorkflowInfo(i).last_attempt_at,
     fork_created_at |-> Some(RepoCreatedAt(i)),
     fork_updated_at |-> Some(RepoUpdatedAt(i))]

\* One iteration of the loop over the rows of the DataFrame.
ProcessRow ==
    /\ pc = "rows"
    /\ rPos <= Len(source[aPos].df)
    /\ LET row == source[aPos].df[rPos]
           key == <<row.github_username, formatted_name>>
       IN  /\ assignment_fork_dates' =
                 IF IsForkRow(row)
                 THEN DictSet(assignment_fork_dates, key, RepoCreatedAt(aPos))
                 ELSE assignment_fork_dates
           /\ assignment_fork_updated' =
                 IF IsForkRow(row)
                 THEN DictSet(assignment_fork_updated, key, RepoUpdatedAt(aPos))
                 ELSE assignment_fork_updated
           /\ assignment_attempts' =
                 IF IsForkRow(row) /\ row.workflow
                 THEN Append(assignment_attempts, AttemptRecord(row, formatted_name, aPos))
                 ELSE assignment_attempts
           /\ students_with_repo_info' = RowAggregates(students_with_repo_info, row, aPos)
    /\ rPos' = rPos + 1
    /\ UNCHANGED <<nameVars, sinkVars, lbVars, srcVars, aPos, pc, formatted_name,
                   assignment_info, all_grades, callVars, histVars>>

\* grades_df without the rows that have no fork date.
GradesDfForksOnly(df, key, created, updated) ==
    SelectSeq([i \in 1..Len(df) |->
                  [github_username |-> df[i].github_username,
                   assignment_name |-> key,
                   points_awarded |-> df[i].points_awarded,
                   fork_created_at |-> DictGet(created, <<df[i].github_username, key>>),
                   fork_updated_at |-> DictGet(updated, <<df[i].github_username, key>>)]],
              LAMBDA g : ~IsNone(g.fork_created_at))

\* grades_df of the assignment, with the fork date columns looked up per
\* (username, formatted_name) once the rows are processed.
GradesDf(df, key, created, updated) ==
    [i \in 1..Len(df) |->
        [github_username |-> df[i].github_username,
         assignment_name |-> key,
         points_awarded |-> df[i].points_awarded,
         fork_created_at |-> DictGet(created, <<df[i].github_username, key>>),
         fork_updated_at |-> DictGet(updated, <<df[i].github_username, key>>)]]

\* The end of the iteration: all_grades.append(grades_df).
FinishAssignment ==
    /\ pc = "rows"
    /\ rPos > Len(source[aPos].df)
    /\ all_grades' =
          all_grades \o GradesDf(source[aPos].df, formatted_name,
                                 assignment_fork_dates, assignment_fork_updated)
    /\ pc' = "download"
    /\ UNCHANGED <<nameVars, sinkVars, lbVars, srcVars, posVars, formatted_name,
                   assignment_info, students_with_repo_info, assignment_fork_dates,
                   assignment_fork_updated, assignment_attempts, callVars, histVars>>

\* The loop over assignment_data has ended.
SourceExhausted == aPos = Len(source)

\* After the loop the sink writes start, with or without grades.
ConsolidateAlways ==
    /\ pc = "download"
    /\ SourceExhausted
    /\ pc' = "sync_assignments"
    /\ UNCHANGED <<nameVars, sinkVars, lbVars, srcVars, posVars, accVars,
                   callVars, histVars>>

\* After the loop: without any grades return an empty DataFrame, else
\* pd.concat and start the sink writes.
Consolidate ==
    /\ pc = "download"
    /\ SourceExhausted
    /\ pc' = IF all_grades = <<>> THEN "done" ELSE "sync_assignments"
    /\ UNCHANGED <<nameVars, sinkVars, lbVars, srcVars, posVars, accVars,
                   callVars, histVars>>

(***************************************************************************)
(* sync_assignments_to_supabase, sync_students_to_supabase,                *)
(* sync_grades_to_supabase, sync_assignment_attempts_to_supabase           *)
(***************************************************************************)

\* The writers in the order process_assignments_in_memory calls them, and
\* what follows each.
Writers == {"sync_assignments", "sync_students", "sync_grades", "sync_attempts"}
AfterGradesFirst(w) ==
    CASE w = "sync_assignments" -> "sync_grades"
      [] w = "sync_grades" -> "sync_students"
      [] w = "sync_students" -> "sync_attempts"
      [] w = "sync_attempts" -> "refresh"
After(w) ==
    CASE w = "sync_assignments" -> "sync_students"
      [] w = "sync_students" -> "sync_grades"
      [] w = "sync_grades" -> "sync_attempts"
      [] w = "sync_attempts" -> "refresh"

\* At most this many attempts are configured.
MaxRetries == 2

\* datetime.datetime.now() in the r-th run.
Now(r) == r

\* The records sync_assignments_to_supabase prepares.
AssignmentsPayload(info, now) ==
    [i \in 1..Len(info) |->
        ("name" :> info[i].name)
        @@ ("points_available" :> info[i].points_available)
        @@ ("updated_at" :> Some(now))]

\* The records sync_students_to_supabase prepares: a date and the
\* resolution time are put in the record only when they are not null.
StudentsPayload(aggs, now) ==
    [i \in 1..Len(aggs) |->
        ("github_username" :> aggs[i].github_username)
        @@ ("updated_at" :> Some(now))
        @@ OptionalColumn("fork_created_at", aggs[i].fork_created_at)
        @@ OptionalColumn("last_updated_at", aggs[i].last_updated_at)
        @@ OptionalColumn("resolution_time_hours", aggs[i].resolution_time_hours)]

\* The records sync_grades_to_supabase prepares: a fork date is put in the
\* record only when it is not null.
GradesPayload(g) ==
    [i \in 1..Len(g) |->
        ("github_username" :> g[i].github_username)
        @@ ("assignment_name" :> g[i].assignment_name)
        @@ ("points_awarded" :> g[i].points_awarded)
        @@ OptionalColumn("fork_created_at", g[i].fork_created_at)
        @@ OptionalColumn("fork_updated_at", g[i].fork_updated_at)]

\* A writer that prepares nothing when some attempt has no mapping.
AttemptsPayloadAllOrNothing(att, stu, asg, now) ==
    IF \A k \in 1..Len(att) :
          att[k].github_username \in DOMAIN stu /\ att[k].assignment_name \in DOMAIN asg
    THEN [i \in 1..Len(att) |->
            ("user_id" :> att[i].github_username)
            @@ ("assignment_id" :> att[i].assignment_name)
            @@ ("repo_url" :> att[i].repo_url)
            @@ ("total_attempts" :> att[i].total_attempts)
            @@ ("successful_attempts" :> att[i].successful_attempts)
            @@ ("failed_attempts" :> att[i].failed_attempts)
            @@ ("first_attempt_at" :> att[i].first_attempt_at)
            @@ ("last_attempt_at" :> att[i].last_attempt_at)
            @@ ("fork_created_at" :> att[i].fork_created_at)
            @@ ("fork_updated_at" :> att[i].fork_updated_at)
            @@ ("updated_at" :> Some(now))]
    ELSE <<>>

\* The records sync_assignment_attempts_to_supabase prepares: an attempt
\* whose username or assignment name the tables do not have is skipped.
\* The id of a row stands for the row, so the key of the row is used for it.
AttemptsPayload(att, stu, asg, now) ==
    LET Mapped(a) == a.github_username \in DOMAIN stu /\ a.assignment_name \in DOMAIN asg
        kept == SelectSeq(att, Mapped)
    IN  [i \in 1..Len(kept) |->
            ("user_id" :> kept[i].github_username)
            @@ ("assignment_id" :> kept[i].assignment_name)
            @@ ("repo_url" :> kept[i].repo_url)
            @@ ("total_attempts" :> kept[i].total_attempts)
            @@ ("successful_attempts" :> kept[i].successful_attempts)
            @@ ("failed_attempts" :> kept[i].failed_attempts)
            @@ ("first_attempt_at" :> kept[i].first_attempt_at)
            @@ ("last_attempt_at" :> kept[i].last_attempt_at)
            @@ ("fork_created_at" :> kept[i].fork_created_at)
            @@ ("fork_updated_at" :> kept[i].fork_updated_at)
            @@ ("updated_at" :> Some(now))]

\* The argument of the writer.
WriterInput(w) ==
    CASE w = "sync_assignments" -> assignment_info
      [] w = "sync_students" -> students_with_repo_info
      [] w = "sync_grades" -> all_grades
      [] w = "sync_attempts" -> assignment_attempts

\* The list the writer prepares from its argument.
Prepared(w) ==
    CASE w = "sync_assignments" -> AssignmentsPayload(assignment_info, Now(run))
      [] w = "sync_students" -> StudentsPayload(students_with_repo_info, Now(run))
      [] w = "sync_grades" -> GradesPayload(all_grades)
      [] w = "sync_attempts" ->
            AttemptsPayload(assignment_attempts, students, assignments, Now(run))

\* An upsert that sends one record less on a retry.
UpsertPayloadShrinks(p, n) == IF n = 0 THEN p ELSE Tail(p)

\* The list the n-th retry of the loop hands to upsert (n = 0: the first
\* attempt): always the prepared list.
UpsertPayload(p, n) == p

\* The sink takes the request of the writer.
Accepted(w, p) ==
    CASE w = "sync_assignments" -> UpsertAccepted(p, AssignmentConflict)
      [] w = "sync_students" -> UpsertAccepted(p, StudentConflict)
      [] w = "sync_grades" -> UpsertAccepted(p, GradeConflict)
      [] w = "sync_attempts" -> UpsertAccepted(p, AttemptConflict)

\* The writer starts: return at once on an empty argument or an empty
\* prepared list, else enter the retry loop.
Prepare(w) ==
    /\ pc = w
    /\ phase = "prepare"
    /\ payload' = IF WriterInput(w) = <<>> THEN <<>> ELSE Prepared(w)
    /\ attempt' = 0
    /\ sent' = <<>>
    /\ IF payload' = <<>>
       THEN /\ pc' = After(w)
            /\ result' = [result EXCEPT ![w] = "nothing"]
            /\ UNCHANGED phase
       ELSE /\ phase' = "upsert"
            /\ UNCHANGED <<pc, result>>
    /\ UNCHANGED <<nameVars, sinkVars, lbVars, srcVars, posVars, accVars,
                   error, failed, snapshot>>

\* sync_assignment_attempts_to_supabase cannot read the id mappings.
MappingsFail ==
    /\ pc = "sync_attempts"
    /\ phase = "prepare"
    /\ assignment_attempts # <<>>
    /\ payload' = <<>>
    /\ attempt' = 0
    /\ sent' = <<>>
    /\ pc' = "raised"
    /\ result' = [result EXCEPT !["sync_attempts"] = "raised"]
    /\ error' = Some([by |-> "sync_attempts", cause |-> <<"mappings", 0>>])
    /\ failed' = TRUE
    /\ UNCHANGED <<nameVars, sinkVars, lbVars, srcVars, posVars, accVars, phase, snapshot>>

\* for attempt in range(max_retries) over the empty range: the writer
\* returns without a request.
NoAttempt(w) ==
    /\ pc = w
    /\ phase = "upsert"
    /\ max_retries = 0
    /\ pc' = After(w)
    /\ phase' = "prepare"
    /\ result' = [result EXCEPT ![w] = "unsent"]
    /\ UNCHANGED <<nameVars, sinkVars, lbVars, srcVars, posVars, accVars,
                   payload, attempt, sent, error, failed, snapshot>>

\* An attempt of the retry loop succeeds: the table takes the records and
\* the writer returns.
UpsertOk(w) ==
    /\ pc = w
    /\ phase = "upsert"
    /\ attempt < max_retries
    /\ LET p == UpsertPayload(payload, attempt) IN
        /\ Accepted(w, p)
        /\ sent' = Append(sent, [writer |-> w, payload |-> p, outcome |-> "ok"])
        /\ assignments' = IF w = "sync_assignments"
                          THEN Upsert(assignments, p, AssignmentConflict, AssignmentDefaults)
                          ELSE assignments
        /\ students' = IF w = "sync_students"
                       THEN Upsert(students, p, StudentConflict, StudentDefaults)
                       ELSE students
        /\ grades' = IF w = "sync_grades"
                     THEN Upsert(grades, p, GradeConflict, GradeDefaults)
                     ELSE grades
        /\ attempts' = IF w = "sync_attempts"
                       THEN Upsert(attempts, p, AttemptConflict, AttemptDefaults)
                       ELSE attempts
    /\ attempt' = attempt + 1
    /\ pc' = After(w)
    /\ phase' = "prepare"
    /\ result' = [result EXCEPT ![w] = "returned"]
    /\ UNCHANGED <<nameVars, leaderboard, lbVars, srcVars, posVars, accVars,
                   payload, error, failed, snapshot>>

\* An attempt of the retry loop fails with the exception e: the last
\* attempt raises SupabaseSyncError from it, an earlier one goes on.
AttemptFails(w, e) ==
    /\ pc = w
    /\ phase = "upsert"
    /\ attempt < max_retries
    /\ sent' = Append(sent, [writer |-> w, payload |-> UpsertPayload(payload, attempt),
                             outcome |-> e])
    /\ attempt' = attempt + 1
    /\ failed' = TRUE
    /\ IF attempt = max_retries - 1
       THEN /\ pc' = "raised"
            /\ result' = [result EXCEPT ![w] = "raised"]
            /\ error' = Some([by |-> w, cause |-> <<e, attempt + 1>>])
       ELSE UNCHANGED <<pc, result, error>>
    /\ UNCHANGED <<nameVars, sinkVars, lbVars, srcVars, posVars, accVars,
                   phase, payload, snapshot>>

\* The sink rejects the request: two of its records have the same key.
UpsertRejected(w) ==
    /\ pc = w
    /\ phase = "upsert"
    /\ attempt < max_retries
    /\ ~Accepted(w, UpsertPayload(payload, attempt))
    /\ AttemptFails(w, "rejected")

\* The request fails for a reason of the moment (network, API error).
UpsertError(w) == AttemptFails(w, "error")

(***************************************************************************)
(* refresh_admin_leaderboard: the reads and the writes                     *)
(***************************************************************************)

\* A refresh that ranks the students graded in the run only.
RefreshComputeOfRun ==
    /\ pc = "refresh"
    /\ leaderboard_data' =
          ComputeLeaderboard(
             [u \in {v \in DOMAIN students :
                        \E i \in 1..Len(all_grades) : all_grades[i].github_username = v}
                 |-> students[u]],
             assignments, grades)
    /\ pc' = IF leaderboard_data' = <<>> THEN "done" ELSE "lb_clear"
    /\ result' = IF leaderboard_data' = <<>>
                 THEN [result EXCEPT !["refresh"] = "returned"]
                 ELSE result
    /\ UNCHANGED <<nameVars, sinkVars, lbPos, upPos, offered, srcVars, posVars, accVars,
                   callVars, error, failed, snapshot>>

\* refresh_admin_leaderboard up to the ranking: read the three tables, return
\* when there is no student, else build, sort and rank leaderboard_data.
RefreshCompute ==
    /\ pc = "refresh"
    /\ IF DOMAIN students = {}
       THEN /\ pc' = "done"
            /\ result' = [result EXCEPT !["refresh"] = "returned"]
            /\ UNCHANGED leaderboard_data
       ELSE /\ \E order \in RowOrders(students) :
                  leaderboard_data' =
                      ComputeLeaderboardIn(order, students, assignments, grades)
            /\ pc' = "lb_clear"
            /\ UNCHANGED result
    /\ UNCHANGED <<nameVars, sinkVars, lbPos, upPos, offered, srcVars, posVars, accVars,
                   callVars, error, failed, snapshot>>

\* One of the three selects fails: the outer handler raises SupabaseSyncError.
RefreshReadFails ==
    /\ pc = "refresh"
    /\ pc' = "raised"
    /\ result' = [result EXCEPT !["refresh"] = "raised"]
    /\ error' = Some([by |-> "refresh", cause |-> <<"select", 0>>])
    /\ failed' = TRUE
    /\ UNCHANGED <<nameVars, sinkVars, lbVars, srcVars, posVars, accVars, callVars, snapshot>>

\* The delete of all rows succeeds.
ClearOk ==
    /\ pc = "lb_clear"
    /\ leaderboard' = Empty
    /\ lbPos' = 1
    /\ pc' = "lb_insert"
    /\ UNCHANGED <<nameVars, students, assignments, grades, attempts, leaderboard_data,
                   upPos, offered, srcVars, posVars, accVars, callVars, histVars>>

\* The delete fails: a warning, and the writes go on.
ClearFails ==
    /\ pc = "lb_clear"
    /\ lbPos' = 1
    /\ pc' = "lb_insert"
    /\ result' = [result EXCEPT !["clear"] = "failed"]
    /\ failed' = TRUE
    /\ UNCHANGED <<nameVars, sinkVars, leaderboard_data, upPos, offered, srcVars, posVars,
                   accVars, callVars, error, snapshot>>

\* batch_size of the leaderboard writes.
BatchSize == 10

\* Index of the last entry of the batch that starts at i.
BatchEnd(i) ==
    IF i + BatchSize - 1 < Len(leaderboard_data) THEN i + BatchSize - 1
    ELSE Len(leaderboard_data)

\* The usernames of the batch that starts at i.
BatchUsers(i) == {leaderboard_data[j].github_username : j \in i..BatchEnd(i)}

\* The row of the computed entry of username u.
EntryOf(u) ==
    leaderboard_data[CHOOSE j \in 1..Len(leaderboard_data) :
                        leaderboard_data[j].github_username = u]

\* A write request to the leaderboard table: the operation, the usernames
\* of its records and whether it succeeded.
Request(op, users, ok) == [op |-> op, users |-> users, ok |-> ok]

\* The loop over the batches goes on to the batch after the one at lbPos;
\* after the last one refresh_admin_leaderboard returns.
NextBatch ==
    /\ lbPos' = lbPos + BatchSize
    /\ upPos' = 0
    /\ IF lbPos + BatchSize > Len(leaderboard_data)
       THEN /\ pc' = "done"
            /\ result' = [result EXCEPT !["refresh"] = "returned"]
       ELSE /\ pc' = "lb_insert"
            /\ UNCHANGED result

\* insert(batch) succeeds: no row of the table has a username of the batch.
InsertOk ==
    /\ pc = "lb_insert"
    /\ BatchUsers(lbPos) \cap DOMAIN leaderboard = {}
    /\ leaderboard' =
          [u \in DOMAIN leaderboard \cup BatchUsers(lbPos) |->
              IF u \in BatchUsers(lbPos) THEN EntryOf(u) ELSE leaderboard[u]]
    /\ offered' = Append(offered, Request("insert", BatchUsers(lbPos), TRUE))
    /\ NextBatch
    /\ UNCHANGED <<nameVars, students, assignments, grades, attempts, leaderboard_data,
                   srcVars, posVars, accVars, callVars, error, failed, snapshot>>

\* insert(batch) fails: the records of the batch are upserted one by one.
InsertFails ==
    /\ pc = "lb_insert"
    /\ pc' = "lb_upsert"
    /\ upPos' = lbPos
    /\ offered' = Append(offered, Request("insert", BatchUsers(lbPos), FALSE))
    /\ failed' = TRUE
    /\ UNCHANGED <<nameVars, sinkVars, leaderboard_data, lbPos, srcVars, posVars,
                   accVars, callVars, result, error, snapshot>>

\* insert(batch) fails because a row of the table has a username of the batch.
InsertRejected ==
    /\ pc = "lb_insert"
    /\ BatchUsers(lbPos) \cap DOMAIN leaderboard # {}
    /\ InsertFails

\* insert(batch) fails for a reason of the moment.
InsertError == InsertFails

\* A per-record loop that gives the batch up after its first record.
NextRecordGivesUp == NextBatch

\* The per-record loop goes on to the record after the one at upPos; after
\* the last one of the batch the loop over the batches goes on.
NextRecord ==
    IF upPos < BatchEnd(lbPos)
    THEN /\ upPos' = upPos + 1
         /\ UNCHANGED <<lbPos, pc, result>>
    ELSE NextBatch

\* upsert(student, on_conflict='github_username') succeeds.
RecordUpsertOk ==
    /\ pc = "lb_upsert"
    /\ LET e == leaderboard_data[upPos] IN
         leaderboard' =
            [u \in DOMAIN leaderboard \cup {e.github_username} |->
                IF u = e.github_username THEN e ELSE leaderboard[u]]
    /\ offered' =
          Append(offered, Request("upsert", {leaderboard_data[upPos].github_username}, TRUE))
    /\ NextRecord
    /\ UNCHANGED <<nameVars, students, assignments, grades, attempts, leaderboard_data,
                   srcVars, posVars, accVars, callVars, error, failed, snapshot>>

\* upsert(student) fails: the error is logged and the loop goes on.
RecordUpsertFails ==
    /\ pc = "lb_upsert"
    /\ offered' =
          Append(offered, Request("upsert", {leaderboard_data[upPos].github_username}, FALSE))
    /\ NextRecord
    /\ failed' = TRUE
    /\ UNCHANGED <<nameVars, sinkVars, leaderboard_data, srcVars, posVars, accVars,
                   callVars, error, snapshot>>

(***************************************************************************)
(* The runs                                                                *)
(***************************************************************************)

\* The operations of a run whose outcome is recorded.
Operations ==
    Writers \cup {"refresh", "clear"} \cup {"get_classroom_id", "get_assignments"}

\* The local variables of process_assignments_in_memory at its start.
StartRun ==
    /\ aPos = 0
    /\ rPos = 0
    /\ formatted_name = <<>>
    /\ assignment_info = <<>>
    /\ all_grades = <<>>
    /\ students_with_repo_info = <<>>
    /\ assignment_fork_dates = Empty
    /\ assignment_fork_updated = Empty
    /\ assignment_attempts = <<>>
    /\ leaderboard_data = <<>>
    /\ lbPos = 0
    /\ upPos = 0
    /\ offered = <<>>
    /\ phase = "prepare"
    /\ payload = <<>>
    /\ attempt = 0
    /\ sent = <<>>
    /\ result = [o \in Operations |-> "none"]
    /\ error = None

\* Nothing has run.
RunIdle ==
    /\ StartRun
    /\ run = 1
    /\ source = <<>>
    /\ failed = FALSE
    /\ snapshot = None

\* The tables without the updated_at stamps.
WithoutStamp(table) ==
    [k \in DOMAIN table |->
        [c \in DOMAIN table[k] \ {"updated_at"} |-> table[k][c]]]
SinkContent ==
    [students |-> WithoutStamp(students), assignments |-> WithoutStamp(assignments),
     grades |-> WithoutStamp(grades), attempts |-> WithoutStamp(attempts),
     leaderboard |-> WithoutStamp(leaderboard)]

\* The program is run again on the same source data.
Rerun ==
    /\ pc \in {"done", "raised"}
    /\ run = 1
    /\ run' = 2
    /\ snapshot' = Some(SinkContent)
    /\ pc' = "download"
    /\ aPos' = 0
    /\ rPos' = 0
    /\ formatted_name' = <<>>
    /\ assignment_info' = <<>>
    /\ all_grades' = <<>>
    /\ students_with_repo_info' = <<>>
    /\ assignment_fork_dates' = Empty
    /\ assignment_fork_updated' = Empty
    /\ assignment_attempts' = <<>>
    /\ leaderboard_data' = <<>>
    /\ lbPos' = 0
    /\ upPos' = 0
    /\ offered' = <<>>
    /\ phase' = "prepare"
    /\ payload' = <<>>
    /\ attempt' = 0
    /\ sent' = <<>>
    /\ result' = [o \in Operations |-> "none"]
    /\ error' = None
    /\ UNCHANGED <<nameVars, sinkVars, max_retries, source, failed>>

(***************************************************************************)
(* run_sync and main                                                       *)
(***************************************************************************)

\* What `gh classroom list` and the search for the configured name may give:
\* the id, no classroom of that name, a failed or timed out command, or an
\* output of fewer than four lines.
LookupOutcomes == {"found", "not_found", "cli_error", "timeout", "invalid_format"}

\* run_sync goes on to the listing on every outcome, found or not.
ClassroomFoundOrMissing(out) == out \in {"found", "not_found"}

\* run_sync goes on to the listing only with a classroom id.
ClassroomFound(out) == out = "found"

\* get_classroom_id and run_sync's check of its result: GitHubCLIError
\* unless the classroom is found.
GetClassroomId ==
    /\ pc = "classroom"
    /\ \E out \in LookupOutcomes :
          /\ result' = [result EXCEPT !["get_classroom_id"] = out]
          /\ IF ClassroomFound(out)
             THEN /\ pc' = "list_assignments"
                  /\ UNCHANGED <<error, failed>>
             ELSE /\ pc' = "raised"
                  /\ error' = Some([by |-> "get_classroom_id", cause |-> <<out, 0>>])
                  /\ failed' = TRUE
    /\ UNCHANGED <<nameVars, sinkVars, lbVars, srcVars, posVars, accVars, callVars,
                   snapshot>>

\* What `gh classroom assignments` may give: assignments, none, a failed or
\* timed out command, or an output of fewer than four lines.
ListingOutcomes == {"listed", "empty", "cli_error", "timeout", "invalid_format"}

\* get_assignments and run_sync's check of its result: return without
\* assignments, GitHubCLIError when the command or the parsing fails.
GetAssignments ==
    /\ pc = "list_assignments"
    /\ \E out \in ListingOutcomes :
          /\ result' = [result EXCEPT !["get_assignments"] = out]
          /\ IF out \in {"listed", "empty"}
             THEN /\ pc' = IF out = "listed" THEN "download" ELSE "done"
                  /\ UNCHANGED <<error, failed>>
             ELSE /\ pc' = "raised"
                  /\ error' = Some([by |-> "get_assignments", cause |-> <<out, 0>>])
                  /\ failed' = TRUE
    /\ UNCHANGED <<nameVars, sinkVars, lbVars, srcVars, posVars, accVars, callVars,
                   snapshot>>

\* The exception classes of the program.
ExceptionOf(by) ==
    IF by \in {"get_classroom_id", "get_assignments"}
    THEN "GitHubCLIError"
    ELSE "SupabaseSyncError"

\* main's exit: sys.exit(1) in every handler, else the end of the script.
ExitStatus(raised) == IF raised THEN 1 ELSE 0
ExitPc(status) == IF status = 0 THEN "exit_0" ELSE "exit_1"

\* run_sync returns or re-raises, and main ends the process.
MainExits ==
    /\ pc \in {"done", "raised"}
    /\ pc' = ExitPc(ExitStatus(pc = "raised"))
    /\ UNCHANGED <<nameVars, sinkVars, lbVars, srcVars, posVars, accVars, callVars,
                   histVars>>

\* The rows of an earlier run: u1 forked the assignment "a" and got 5 of
\* its 10 points.
PriorStudents == [u \in {"u1"} |-> StudentRow(FALSE, Some(3600), Some(12600))]
PriorAssignments == [n \in {<<"a">>} |-> AssignmentRow(Some(10))]
PriorGrades == [k \in {<<"u1", <<"a">>>>} |-> GradeRow(Some(5), Some(3600), Some(12600))]
PriorAttempts ==
    [k \in {<<"u1", <<"a">>>>} |->
        [repo_url |-> Some(<<"u1", 1>>), total_attempts |-> Some(1),
         successful_attempts |-> Some(0), failed_attempts |-> Some(1),
         first_attempt_at |-> Some(3660), last_attempt_at |-> Some(3660),
         fork_created_at |-> Some(3600), fork_updated_at |-> Some(12600),
         updated_at |-> Some(EarlierStamp)]]
PriorLeaderboard ==
    [u \in {"u1"} |-> ComputeLeaderboard(PriorStudents, PriorAssignments, PriorGrades)[1]]

(***************************************************************************)
(* RankSpec: the leaderboard computation on tables drawn from bounded sets *)
(***************************************************************************)

\* The i-th assignment key of the ranker's inputs: "a", "aa", "aaa", ...
RankName(i) == [j \in 1..i |-> "a"]

\* At most this many assignments in the ranker's inputs.
MaxRankAssignments == 4

\* Student rows: without a fork; with timestamps but has_fork false; with a
\* fork and no timestamps; forks that took 10 h, 10.5 h and 20 h; a fork
\* whose last update is half an hour before its creation.
RankStudentRows ==
    {StudentRow(FALSE, None, None),
     StudentRow(TRUE, Some(3600), Some(1800)),
     StudentRow(FALSE, Some(0), Some(36000)),
     StudentRow(TRUE, None, None),
     StudentRow(TRUE, Some(0), Some(36000)),
     StudentRow(TRUE, Some(3600), Some(41400)),
     StudentRow(TRUE, Some(0), Some(72000))}

\* Shape 1: up to three students, one assignment, grades of 8, 9, 10 of 10.
RankInitRanking ==
    /\ students \in PartialFunctions(Users, RankStudentRows) \ {Empty}
    /\ assignments \in [{RankName(1)} -> {AssignmentRow(Some(10)), AssignmentRow(None)}]
    /\ \E awarded \in [DOMAIN students -> {Some(8), Some(9), Some(10)}] :
          grades = [k \in {<<u, RankName(1)>> : u \in DOMAIN students} |->
                        GradeRow(awarded[k[1]], None, None)]

\* Shape 2: one student, up to MaxRankAssignments assignments of 50 points
\* or of no stored points, a grade of 50, 25, 0 or null on some of them.
RankInitPercentage ==
    /\ students \in [{"u1"} -> {StudentRow(FALSE, None, None)}]
    /\ \E n \in 1..MaxRankAssignments :
          /\ assignments \in [{RankName(i) : i \in 1..n} ->
                                 {AssignmentRow(Some(50)), AssignmentRow(Some(0))}]
          /\ grades \in PartialFunctions({<<"u1", RankName(i)>> : i \in 1..n},
                                          {GradeRow(Some(50), None, None),
                                           GradeRow(Some(25), None, None),
                                           GradeRow(None, None, None)})

\* Shape 3: two students, up to two assignments in the table with 10, 0 or
\* no stored points, and grades of 20, 5, 0 or null on the two names,
\* whether the table has them or not.
RankInitPoints ==
    /\ students \in [{"u1", "u2"} -> {StudentRow(FALSE, None, None)}]
    /\ assignments \in PartialFunctions({RankName(1), RankName(2)},
                                        {AssignmentRow(Some(10)), AssignmentRow(Some(0)),
                                         AssignmentRow(None)})
    /\ grades \in PartialFunctions({"u1", "u2"} \X {RankName(1), RankName(2)},
                                   {GradeRow(Some(20), None, None),
                                    GradeRow(Some(5), None, None),
                                    GradeRow(Some(0), None, None),
                                    GradeRow(None, None, None)})

RankInit ==
    /\ NameIdle
    /\ RankInitRanking \/ RankInitPercentage \/ RankInitPoints
    /\ attempts = Empty
    /\ leaderboard = Empty
    /\ RunIdle
    /\ max_retries = 1
    /\ pc = "refresh"

RankNext == RefreshCompute

(***************************************************************************)
(* Specifications                                                          *)
(***************************************************************************)
vars ==
    <<nameVars, sinkVars, lbVars, pc, srcVars, posVars, accVars, callVars, histVars>>

SinkIdle ==
    /\ students = Empty
    /\ assignments = Empty
    /\ grades = Empty
    /\ attempts = Empty
    /\ leaderboard = Empty
    /\ RunIdle
    /\ max_retries = 1
    /\ pc = "idle"

NameInit == NameArgs /\ SinkIdle

NameNext ==
    \/ FormatName /\ UNCHANGED <<sinkVars, lbVars, pc, srcVars, posVars, accVars,
                                 callVars, histVars>>
    \/ FormatAgain /\ UNCHANGED <<sinkVars, lbVars, pc, srcVars, posVars, accVars,
                                  callVars, histVars>>

\* format_assignment_name on its own.
NameSpec == NameInit /\ [][NameNext]_vars

\* refresh_admin_leaderboard's computation on its own.
RankSpec == RankInit /\ [][RankNext]_vars

\* What an earlier run left in the sink: nothing, or one student with its
\* assignment, grade, attempt record and leaderboard row.
Init ==
    /\ NameIdle
    /\ \/ /\ students = Empty
          /\ assignments = Empty
          /\ grades = Empty
          /\ attempts = Empty
          /\ leaderboard = Empty
       \/ /\ students = PriorStudents
          /\ assignments = PriorAssignments
          /\ grades = PriorGrades
          /\ attempts = PriorAttempts
          /\ leaderboard = PriorLeaderboard
    /\ RunIdle
    /\ max_retries \in 0..MaxRetries
    /\ pc = "download"

Next ==
    \/ DownloadGrades
    \/ ProcessRow
    \/ FinishAssignment
    \/ Consolidate
    \/ \E w \in Writers : Prepare(w)
    \/ MappingsFail
    \/ \E w \in Writers : NoAttempt(w)
    \/ \E w \in Writers : UpsertOk(w)
    \/ \E w \in Writers : UpsertRejected(w)
    \/ \E w \in Writers : UpsertError(w)
    \/ RefreshCompute
    \/ RefreshReadFails
    \/ ClearOk
    \/ ClearFails
    \/ InsertOk
    \/ InsertRejected
    \/ InsertError
    \/ RecordUpsertOk
    \/ RecordUpsertFails

\* One run of process_assignments_in_memory, with the failures the sink
\* may have.
Spec == Init /\ [][Next]_vars

IdemInit == Init

\* The steps of a run in which no sink operation fails for a reason of the
\* moment, and the start of the second run.
IdemNext ==
    \/ DownloadGrades
    \/ ProcessRow
    \/ FinishAssignment
    \/ Consolidate
    \/ \E w \in Writers : Prepare(w)
    \/ \E w \in Writers : NoAttempt(w)
    \/ \E w \in Writers : UpsertOk(w)
    \/ \E w \in Writers : UpsertRejected(w)
    \/ RefreshCompute
    \/ ClearOk
    \/ InsertOk
    \/ Rerun

\* Two runs in a row on the same source data.
IdemSpec == IdemInit /\ [][IdemNext]_vars

(***************************************************************************)
(* PointsSpec: the points inference on exports drawn from bounded sets     *)
(***************************************************************************)

\* At most this many rows in an export of PointsSpec.
MaxPointRows == 3

\* The display names of PointsSpec: "A", and "Part 2" whose key is "part-2".
PointNames == {<<"A">>, <<"P", "a", "r", "t", " ", "2">>}

\* The students of the exports of PointsSpec.
PointUserSeq == <<"u1", "u2", "u3", "u4", "u5">>

\* The exports of PointsSpec: a row per student, each with no
\* points_available or with 0, 10 or 20.
PointExports ==
    UNION {{[i \in 1..k |-> SourceRow(PointUserSeq[i], Some(10), av[i], "none", "fail", FALSE)] :
                av \in [1..k -> {None, Some(0), Some(10), Some(20)}]} :
            k \in 1..MaxPointRows}

\* The listing has one assignment, whose export the reader is about to
\* return.
PointsInit ==
    /\ NameIdle
    /\ students = Empty
    /\ assignments = Empty
    /\ grades = Empty
    /\ attempts = Empty
    /\ leaderboard = Empty
    /\ StartRun
    /\ run = 2
    /\ source \in {<<SourceAssignment(n, TRUE, df)>> : n \in PointNames, df \in PointExports}
    /\ failed = FALSE
    /\ snapshot = None
    /\ max_retries = 1
    /\ pc = "download"

PointsNext == DownloadGrades

\* process_assignments_in_memory up to the assignment info of one export.
PointsSpec == PointsInit /\ [][PointsNext]_vars

(***************************************************************************)
(* BatchSpec: the leaderboard writes for up to MaxEntries students         *)
(***************************************************************************)

\* At most this many students in BatchSpec: one more than a batch holds.
MaxEntries == 11

\* The usernames of BatchSpec, in ascending order.
BatchUserSeq ==
    <<"s01", "s02", "s03", "s04", "s05", "s06", "s07", "s08", "s09", "s10",
      "s11", "s12", "s13">>

\* The students table of the first n of them: no forks.
BatchStudents(n) == [u \in {BatchUserSeq[i] : i \in 1..n} |-> StudentRow(FALSE, None, None)]

\* leaderboard_data of these students when there are no grades: the
\* entries have equal times and percentages and are ranked by username.
BatchLeaderboard(n) ==
    Ranked([i \in 1..n |-> leaderboard_entry(BatchUserSeq[i], BatchStudents(n), Empty, Empty)])

\* refresh_admin_leaderboard has computed the entries of 1..MaxEntries
\* students; the table is empty or has the row of the first of them.
BatchInit ==
    /\ NameIdle
    /\ \E n \in 1..MaxEntries :
          /\ students = BatchStudents(n)
          /\ leaderboard_data = BatchLeaderboard(n)
          /\ leaderboard \in {Empty, [u \in {BatchUserSeq[1]} |-> BatchLeaderboard(n)[1]]}
    /\ assignments = Empty
    /\ grades = Empty
    /\ attempts = Empty
    /\ lbPos = 0
    /\ upPos = 0
    /\ offered = <<>>
    /\ run = 1
    /\ max_retries = 1
    /\ source = <<>>
    /\ aPos = 0
    /\ rPos = 0
    /\ formatted_name = <<>>
    /\ assignment_info = <<>>
    /\ all_grades = <<>>
    /\ students_with_repo_info = <<>>
    /\ assignment_fork_dates = Empty
    /\ assignment_fork_updated = Empty
    /\ assignment_attempts = <<>>
    /\ phase = "prepare"
    /\ payload = <<>>
    /\ attempt = 0
    /\ sent = <<>>
    /\ result = [o \in Operations |-> "none"]
    /\ error = None
    /\ failed = FALSE
    /\ snapshot = None
    /\ pc = "lb_clear"

BatchNext ==
    \/ ClearOk
    \/ ClearFails
    \/ InsertOk
    \/ InsertRejected
    \/ InsertError
    \/ RecordUpsertOk
    \/ RecordUpsertFails

\* refresh_admin_leaderboard from the clear step on.
BatchSpec == BatchInit /\ [][BatchNext]_vars

(***************************************************************************)
(* main from its start to the end of the process                           *)
(***************************************************************************)

\* The process starts: the sink holds what an earlier run left, and
\* run_sync is about to look the classroom up.
MainInit ==
    /\ NameIdle
    /\ \/ /\ students = Empty
          /\ assignments = Empty
          /\ grades = Empty
          /\ attempts = Empty
          /\ leaderboard = Empty
       \/ /\ students = PriorStudents
          /\ assignments = PriorAssignments
          /\ grades = PriorGrades
          /\ attempts = PriorAttempts
          /\ leaderboard = PriorLeaderboard
    /\ RunIdle
    /\ max_retries \in 0..MaxRetries
    /\ pc = "classroom"

MainNext ==
    \/ GetClassroomId
    \/ GetAssignments
    \/ DownloadGrades
    \/ ProcessRow
    \/ FinishAssignment
    \/ Consolidate
    \/ \E w \in Writers : Prepare(w)
    \/ MappingsFail
    \/ \E w \in Writers : NoAttempt(w)
    \/ \E w \in Writers : UpsertOk(w)
    \/ \E w \in Writers : UpsertRejected(w)
    \/ \E w \in Writers : UpsertError(w)
    \/ RefreshCompute
    \/ RefreshReadFails
    \/ ClearOk
    \/ ClearFails
    \/ InsertOk
    \/ InsertRejected
    \/ InsertError
    \/ RecordUpsertOk
    \/ RecordUpsertFails
    \/ MainExits

\* One run of main, with the failures the classroom CLI and the sink may
\* have.
MainSpec == MainInit /\ [][MainNext]_vars

(***************************************************************************)
(* ParseSpec: _parse_assignments_list on the outputs of at most            *)
(* MaxListingLines lines                                                   *)
(***************************************************************************)
MaxListingLines == 5

\* The lines the outputs are made of: an empty and a blank line, a header,
\* and data lines of six, seven and eight fields, one of seven whose last
\* field is empty.
ListingLines ==
    {<<>>,
     <<" ">>,
     <<"h">>,
     <<"i", Tab, "n", Tab, Tab, Tab, Tab, "r">>,
     <<"i", Tab, "n", Tab, Tab, Tab, Tab, Tab, "r">>,
     <<"j", Tab, "m", Tab, Tab, Tab, Tab, Tab, "s", Tab, "x">>,
     <<"i", Tab, "n", Tab, Tab, Tab, Tab, Tab>>}

\* '\n'.join(lines)
RECURSIVE JoinLines(_)
JoinLines(ls) ==
    IF ls = <<>> THEN <<>>
    ELSE IF Len(ls) = 1 THEN Head(ls)
    ELSE Head(ls) \o <<Newline>> \o JoinLines(Tail(ls))

Listings == {JoinLines(ls) : ls \in UNION {[1..k -> ListingLines] : k \in 0..MaxListingLines}}

ParseInit ==
    /\ nameIn = <<>>
    /\ nameOut = Raised("")
    /\ nameOut2 = Raised("")
    /\ namePc = "idle"
    /\ listing \in Listings
    /\ parsed = None
    /\ SinkIdle

\* The call of _parse_assignments_list.
ParseListing ==
    /\ IsNone(parsed)
    /\ parsed' = Some(parse_assignments_list(listing))
    /\ UNCHANGED <<nameIn, nameOut, nameOut2, namePc, listing, sinkVars, lbVars, pc,
                   srcVars, posVars, accVars, callVars, histVars>>

ParseNext == ParseListing

\* _parse_assignments_list on its own.
ParseSpec == ParseInit /\ [][ParseNext]_vars

(***************************************************************************)
(* Properties of format_assignment_name (checked under NameSpec)           *)
(***************************************************************************)

\* The words of a name: lower-case it, delete every character that is not
\* in `kept`, and cut what is left at the characters of `seps`.
RECURSIVE WordsOf(_, _, _)
WordsOf(s, cur, seps) ==
    IF s = <<>>
    THEN IF cur = <<>> THEN <<>> ELSE <<cur>>
    ELSE IF Head(s) \in seps
         THEN (IF cur = <<>> THEN <<>> ELSE <<cur>>) \o WordsOf(Tail(s), <<>>, seps)
         ELSE WordsOf(Tail(s), Append(cur, Head(s)), seps)

RECURSIVE JoinWords(_)
JoinWords(ws) ==
    IF ws = <<>> THEN <<>>
    ELSE IF Len(ws) = 1 THEN ws[1]
    ELSE ws[1] \o <<Hyphen>> \o JoinWords(Tail(ws))

AlnumChars == LowerChars \cup DigitChars

InClass(s, class) == SelectSeq(s, LAMBDA c : c \in class)

\* The pipeline as the claim words it: only the space survives the deletion.
ReferenceSpaceOnly(x) ==
    JoinWords(WordsOf(InClass(LowerStr(x), AlnumChars \cup {" ", Hyphen}), <<>>,
                      {" ", Hyphen}))

\* The pipeline with every whitespace character surviving the deletion.
ReferenceWhitespace(x) ==
    JoinWords(WordsOf(InClass(LowerStr(x), AlnumChars \cup WhitespaceChars \cup {Hyphen}),
                      <<>>, WhitespaceChars \cup {Hyphen}))

\* Only a-z, 0-9 and single interior hyphens.
IsKey(s) ==
    /\ \A i \in 1..Len(s) : s[i] \in AlnumChars \cup {Hyphen}
    /\ s # <<>> => (s[1] # Hyphen /\ s[Len(s)] # Hyphen)
    /\ \A i \in 1..(Len(s) - 1) : ~(s[i] = Hyphen /\ s[i + 1] = Hyphen)

\* C9 (as claimed): for every non-empty x, format_assignment_name applied to
\* its own result succeeds and returns that result unchanged.
C9_FormatIdempotent ==
    namePc = "twice" => (nameOut2.ok /\ nameOut2.val = nameOut.val)

Entries == {leaderboard_data[i] : i \in 1..Len(leaderboard_data)}

Abs(x) == IF x < 0 THEN -x ELSE x

\* x's key (time with null last, -percentage, username) is not greater than y's.
KeyNotGreater(x, y) ==
    LET tx == x.resolution_time_hours
        ty == y.resolution_time_hours
        timeLess == ~IsNone(tx) /\ (IsNone(ty) \/ Val(tx) < Val(ty))
        timeSame == (IsNone(tx) /\ IsNone(ty))
                        \/ (~IsNone(tx) /\ ~IsNone(ty) /\ Val(tx) = Val(ty))
    IN  \/ timeLess
        \/ timeSame /\ x.percentage > y.percentage
        \/ timeSame /\ x.percentage = y.percentage
                    /\ UserOrd(x.github_username) <= UserOrd(y.github_username)

\* C1: the ranking is sorted by resolution_time_hours ascending with the
\* null times after every non-null one, then by percentage descending, then
\* by github_username ascending; no student with a null time is ranked
\* before a student with a non-null one.
C1_RankingOrder ==
    pc = "lb_clear" =>
        \A x, y \in Entries :
            x.ranking_position < y.ranking_position =>
                /\ KeyNotGreater(x, y)
                /\ ~(IsNone(x.resolution_time_hours) /\ ~IsNone(y.resolution_time_hours))

\* C1 witness: A = u1 (10 h, 80), B = u2 (10 h, 90), C = u3 (null, 100) have
\* been ranked B, A, C.
C1_Witness ==
    /\ pc = "lb_clear"
    /\ Len(leaderboard_data) = 3
    /\ [i \in 1..3 |-> leaderboard_data[i].github_username] = <<"u2", "u1", "u3">>
    /\ [i \in 1..3 |-> leaderboard_data[i].percentage] = <<90, 80, 100>>
    /\ [i \in 1..3 |-> leaderboard_data[i].resolution_time_hours] = <<{10}, {10}, {}>>

\* The grades of u that count for the percentage: a points_awarded that is
\* neither null nor zero, on an assignment with resolved positive points.
CountedGrades(u) ==
    {k \in DOMAIN grades :
        /\ k[1] = u
        /\ Truthy(grades[k].points_awarded)
        /\ PointsOf(assignment_points(assignments, grades), k[2]) > 0}

\* p is round(num / den): within a half of the quotient, even on a tie.
IsRounded(p, num, den) ==
    /\ 2 * Abs(p * den - num) <= den
    /\ 2 * Abs(p * den - num) = den => p % 2 = 0

\* The student's grades are all full marks on assignments of the table.
FullMarks(u) ==
    \A k \in {j \in DOMAIN grades : j[1] = u} :
        /\ k[2] \in DOMAIN assignments
        /\ Truthy(grades[k].points_awarded)
        /\ Val(grades[k].points_awarded)
              = PointsOf(assignment_points(assignments, grades), k[2])

ComputedLeaderboard ==
    [u \in {leaderboard_data[i].github_username : i \in 1..Len(leaderboard_data)} |->
        EntryOf(u)]

\* refresh_admin_leaderboard has returned without raising.
RefreshReturned == pc = "done" /\ result["refresh"] = "returned"

\* C3: whenever refresh_admin_leaderboard returns without raising, the
\* leaderboard table holds exactly the entries computed in that call, and
\* no row or value of an earlier snapshot.
C3_LeaderboardFullyReplaced == RefreshReturned => leaderboard = ComputedLeaderboard

\* No attempt of the call has succeeded.
AllAttemptsFailed == \A i \in 1..Len(sent) : sent[i].outcome # "ok"

\* C4: every attempt of a writer sends the prepared payload; no attempt
\* follows a successful one; at most max_retries attempts are made; when
\* all max_retries attempts fail the writer raises SupabaseSyncError with
\* the failure of the last attempt as its cause.
C4_RetryContract ==
    /\ Len(sent) <= max_retries
    /\ \A i \in 1..Len(sent) : sent[i].payload = payload
    /\ \A i \in 1..(Len(sent) - 1) : sent[i].outcome # "ok"
    /\ (max_retries >= 1 /\ Len(sent) = max_retries /\ AllAttemptsFailed) =>
          /\ pc = "raised"
          /\ error = Some([by |-> sent[max_retries].writer,
                           cause |-> <<sent[max_retries].outcome, max_retries>>])

\* sync_grades_to_supabase raised after two failed attempts, the second a
\* retry with the two-record payload, after the two writers before it
\* returned.
C4_Witness ==
    /\ pc = "raised"
    /\ max_retries = 2
    /\ Len(sent) = 2
    /\ Len(payload) = 2
    /\ sent[1].outcome = "error"
    /\ result["sync_students"] = "returned"
    /\ ~IsNone(error)
    /\ Val(error).by = "sync_grades"

\* The usernames of the grade rows of the run.
GradedUsers == {all_grades[i].github_username : i \in 1..Len(all_grades)}

\* The usernames with a fork in some assignment of the run.
ForkUsers == {k[1] : k \in DOMAIN assignment_fork_dates}

\* The aggregates of a username.
AggregatesOf(u) ==
    {students_with_repo_info[i] :
        i \in {j \in 1..Len(students_with_repo_info) :
                  students_with_repo_info[j].github_username = u}}

\* C6: every username of a grade row has a Student aggregate in the batch
\* handed to sync_students_to_supabase; without a fork the aggregate has
\* has_fork false and null fork_created_at, last_updated_at and
\* resolution_time_hours.
C6_EveryGradedUserAggregated ==
    pc = "sync_students" =>
        \A u \in GradedUsers :
            /\ AggregatesOf(u) # {}
            /\ u \notin ForkUsers => AggregatesOf(u) = {Aggregate(u, None, None, FALSE)}

\* No two elements of the sequence have the same key.
UniqueKeys(seq, columns) ==
    \A i, j \in 1..Len(seq) :
        ConflictKey(seq[i], columns) = ConflictKey(seq[j], columns) => i = j

\* C7: in the batches handed to the sink no two assignment records have the
\* same normalized key and no two grade records, and no two attempt
\* records, have the same (username, assignment key).
C7_BatchKeysUnique ==
    pc = "sync_assignments" =>
        /\ UniqueKeys(assignment_info, AssignmentConflict)
        /\ UniqueKeys(all_grades, GradeConflict)
        /\ UniqueKeys(assignment_attempts, GradeConflict)

\* The run has completed and its student and grade writers have written.
RunWritten ==
    /\ pc = "done"
    /\ result["sync_students"] = "returned"
    /\ result["sync_grades"] = "returned"
    /\ result["refresh"] = "returned"

\* C8: after a completed run the stored Student of each username of the
\* run and the stored Grade of each (username, assignment key) of the run
\* have the field values reconciled in the run.
C8_ResyncOverwrites ==
    RunWritten =>
        /\ \A i \in 1..Len(students_with_repo_info) :
              LET a == students_with_repo_info[i]
                  row == students[a.github_username]
              IN  /\ row["fork_created_at"] = a.fork_created_at
                  /\ row["last_updated_at"] = a.last_updated_at
                  /\ row["resolution_time_hours"] = a.resolution_time_hours
        /\ \A i \in 1..Len(all_grades) :
              LET g == all_grades[i]
                  row == grades[ConflictKey(g, GradeConflict)]
              IN  /\ row["points_awarded"] = g.points_awarded
                  /\ row["fork_created_at"] = g.fork_created_at
                  /\ row["fork_updated_at"] = g.fork_updated_at

(***************************************************************************)
(* Properties of two runs in a row (checked under IdemSpec)                *)
(***************************************************************************)

\* The second run has completed and no sink operation has failed.
SecondRunDone == run = 2 /\ pc = "done" /\ ~failed

\* C5: two runs in a row on the same source data without sink failures:
\* after the second run the five tables have, stamps apart, the rows and
\* the field values they had after the first.
C5_SecondRunChangesNothing == SecondRunDone => SinkContent = Val(snapshot)

\* The second run has written the grades of two students on top of the
\* rows of the first and refreshed the leaderboard.
C5_Witness ==
    /\ SecondRunDone
    /\ result["sync_grades"] = "returned"
    /\ result["sync_attempts"] = "returned"
    /\ result["refresh"] = "returned"
    /\ Len(all_grades) = 2
    /\ Cardinality(DOMAIN leaderboard) = 2

(***************************************************************************)
(* Properties of the points inference (checked under PointsSpec)           *)
(***************************************************************************)

\* The points_available column of the export of the first assignment.
AvailableColumn == [i \in 1..Len(source[1].df) |-> source[1].df[i].points_available]

\* The strictly positive values of the column.
PositiveAvailable ==
    {Val(AvailableColumn[i]) :
        i \in {j \in 1..Len(AvailableColumn) :
                  ~IsNone(AvailableColumn[j]) /\ Val(AvailableColumn[j]) > 0}}

\* The assignment info of the export has been stored.
InfoStored == pc = "rows" /\ Len(assignment_info) = 1

\* C11: points_available of an assignment is the maximum of its rows'
\* values when that is neither zero nor absent ({0, 0, 20} gives 20); else
\* 100 when the key contains "part-2"; else it is unset.
C11_PointsInference ==
    InfoStored =>
        LET stored == assignment_info[1].points_available IN
        /\ PositiveAvailable # {} =>
              /\ ~IsNone(stored)
              /\ Val(stored) \in PositiveAvailable
              /\ \A v \in PositiveAvailable : v <= Val(stored)
        /\ (PositiveAvailable = {} /\ ContainsPart2(assignment_info[1].name)) =>
              stored = Some(100)
        /\ (PositiveAvailable = {} /\ ~ContainsPart2(assignment_info[1].name)) =>
              stored = None

\* The rows {0, 0, 20} have given 20.
C11_Witness ==
    /\ InfoStored
    /\ AvailableColumn = <<Some(0), Some(0), Some(20)>>
    /\ assignment_info[1].points_available = Some(20)

(***************************************************************************)
(* Properties of the reconciliation (checked under Spec)                   *)
(***************************************************************************)

\* The rows the loop over the rows has processed: <<a, i>> is the i-th row
\* of the a-th listed assignment.
ProcessedRows ==
    {p \in UNION {{<<a, i>> : i \in 1..Len(source[a].df)} : a \in 1..aPos} :
        source[p[1]].ok /\ (p[1] < aPos \/ pc # "rows" \/ p[2] < rPos)}
RowAt(p) == source[p[1]].df[p[2]]
KeyAt(p) == format_assignment_name(source[p[1]].name).val

\* The rows with a repository that is a fork and has workflow data.
ForkRowsWithRuns ==
    {p \in ProcessedRows :
        RowAt(p).url = "url" /\ RowAt(p).repo = "fork" /\ RowAt(p).workflow}

\* C12: an attempt record is appended for a row only when the metadata
\* fetch reported a fork and the workflow fetch returned data: the attempt
\* records are as many as such rows, and each is the record of one of them.
C12_AttemptsOnlyForForksWithRuns ==
    /\ Len(assignment_attempts) = Cardinality(ForkRowsWithRuns)
    /\ \A k \in 1..Len(assignment_attempts) :
          \E p \in ForkRowsWithRuns :
              /\ assignment_attempts[k].github_username = RowAt(p).github_username
              /\ assignment_attempts[k].assignment_name = KeyAt(p)

\* Two rows with workflow data, one of a fork and one of a repository that
\* is not a fork, have given one attempt record.
C12_Witness ==
    /\ pc = "sync_assignments"
    /\ Len(source) = 1
    /\ Len(source[1].df) = 2
    /\ source[1].df[1].repo = "notfork" /\ source[1].df[1].workflow
    /\ source[1].df[2].repo = "fork" /\ source[1].df[2].workflow
    /\ Len(assignment_attempts) = 1
    /\ assignment_attempts[1].github_username = source[1].df[2].github_username

\* Every aggregate of the list is in the list of the next state, at its
\* place and unchanged.
AggregatesKept ==
    \A i \in 1..Len(students_with_repo_info) :
        /\ i <= Len(students_with_repo_info')
        /\ students_with_repo_info'[i] = students_with_repo_info[i]

\* No username has two aggregates in the list of the next state.
OneAggregatePerUser ==
    \A i, j \in 1..Len(students_with_repo_info') :
        students_with_repo_info'[i].github_username
            = students_with_repo_info'[j].github_username => i = j

\* C13: within a run the aggregate a username has got is never changed by
\* a later row, and a username has one aggregate.
C13_FirstWriteWins == [][AggregatesKept /\ OneAggregatePerUser]_vars

\* u1 has no fork in the first assignment and a fork in the second: the
\* aggregate of the first row has stayed.
C13_Witness ==
    /\ pc = "sync_assignments"
    /\ Len(source) = 2
    /\ source[1].ok /\ source[2].ok
    /\ source[1].df[1].github_username = "u1" /\ source[1].df[1].repo = "notfork"
    /\ source[2].df[1].github_username = "u1" /\ source[2].df[1].repo = "fork"
    /\ source[1].df[1].url = "url" /\ source[2].df[1].url = "url"
    /\ students_with_repo_info = <<Aggregate("u1", None, None, FALSE)>>

(***************************************************************************)
(* Properties of the resolution time (checked under RankSpec)              *)
(***************************************************************************)

\* floor(seconds / 3600)
FloorHours(seconds) == seconds \div SecondsPerHour

\* C14: resolution_time_hours of a leaderboard entry is the floor of the
\* hours from fork_created_at to last_updated_at, also when the update is
\* earlier than the creation, when the student has has_fork and both
\* timestamps; otherwise it is null.
C14_ResolutionTimeFloor ==
    \A e \in Entries :
        LET row == students[e.github_username] IN
        IF row.has_fork /\ ~IsNone(row.fork_created_at) /\ ~IsNone(row.last_updated_at)
        THEN e.resolution_time_hours
                = Some(FloorHours(Val(row.last_updated_at) - Val(row.fork_created_at)))
        ELSE e.resolution_time_hours = None

(***************************************************************************)
(* Properties of the leaderboard writes (checked under BatchSpec)          *)
(***************************************************************************)

\* The indices at which a batch starts.
BatchStarts == {i \in 1..Len(leaderboard_data) : (i - 1) % BatchSize = 0}

\* The request k is the individual upsert of the record of u.
IsUpsertOf(k, u) == offered[k].op = "upsert" /\ offered[k].users = {u}

\* C15: when refresh_admin_leaderboard has returned, every batch has been
\* offered as an insert; after every failed insert each record of its
\* batch has been offered as an individual upsert, whatever became of the
\* upserts before it; so every computed entry has been offered to the sink.
C15_BatchFallback ==
    (RefreshReturned /\ leaderboard_data # <<>>) =>
        /\ \A b \in BatchStarts :
              \E k \in 1..Len(offered) :
                  offered[k].op = "insert" /\ offered[k].users = BatchUsers(b)
        /\ \A k \in 1..Len(offered) :
              (offered[k].op = "insert" /\ ~offered[k].ok) =>
                  \A u \in offered[k].users :
                      \E j \in (k + 1)..Len(offered) : IsUpsertOf(j, u)
        /\ \A i \in 1..Len(leaderboard_data) :
              \E k \in 1..Len(offered) :
                  leaderboard_data[i].github_username \in offered[k].users

\* Eleven entries: the insert of the first batch failed, the upsert of its
\* first record failed, its other nine records were upserted and the
\* second batch was inserted.
C15_Witness ==
    /\ RefreshReturned
    /\ Len(leaderboard_data) = 11
    /\ Len(offered) = 12
    /\ offered[1].op = "insert" /\ ~offered[1].ok
    /\ IsUpsertOf(2, leaderboard_data[1].github_username) /\ ~offered[2].ok
    /\ \A k \in 3..11 : offered[k].op = "upsert" /\ offered[k].ok
    /\ offered[12].op = "insert" /\ offered[12].ok
    /\ Cardinality(DOMAIN leaderboard) = 10

(***************************************************************************)
(* Properties of the failures of a run (checked under Spec)                *)
(***************************************************************************)

\* Every computed entry has been offered to the leaderboard table.
EveryEntryOffered ==
    \A i \in 1..Len(leaderboard_data) :
        \E k \in 1..Len(offered) : leaderboard_data[i].github_username \in offered[k].users

\* C16: a failed clear does not raise and does not stop the refresh, which
\* still offers every entry; and no other sink operation of a run fails
\* without ending the run: a returned refresh has no failed upsert behind it.
C16_OnlyClearTolerated ==
    /\ result["clear"] = "failed" => pc # "raised"
    /\ (RefreshReturned /\ result["clear"] = "failed") => EveryEntryOffered
    /\ RefreshReturned =>
          \A k \in 1..Len(offered) : offered[k].op = "upsert" => offered[k].ok

\* The attempts whose username and assignment key the lookups have.
MappedAttempts ==
    {k \in 1..Len(assignment_attempts) :
        /\ assignment_attempts[k].github_username \in DOMAIN students
        /\ assignment_attempts[k].assignment_name \in DOMAIN assignments}

\* The payload record i is the record of the attempt k.
IsRecordOf(i, k) ==
    /\ payload[i]["user_id"] = assignment_attempts[k].github_username
    /\ payload[i]["assignment_id"] = assignment_attempts[k].assignment_name
    /\ payload[i]["total_attempts"] = assignment_attempts[k].total_attempts
    /\ payload[i]["repo_url"] = assignment_attempts[k].repo_url

\* sync_assignment_attempts_to_supabase has prepared its payload.
AttemptsPrepared == pc = "sync_attempts" /\ phase = "upsert"

\* C17: the payload of sync_assignment_attempts_to_supabase has a record
\* for every attempt whose username and assignment key are found, and no
\* record for any other; the writer does not raise for the others: when
\* none is found it returns without a request.
C17_UnmappedAttemptsSkipped ==
    /\ AttemptsPrepared =>
          /\ Len(payload) = Cardinality(MappedAttempts)
          /\ \A k \in MappedAttempts : \E i \in 1..Len(payload) : IsRecordOf(i, k)
          /\ \A i \in 1..Len(payload) : \E k \in MappedAttempts : IsRecordOf(i, k)
    /\ (assignment_attempts # <<>> /\ result["sync_attempts"] = "nothing") =>
          /\ MappedAttempts = {}
          /\ IsNone(error) \/ Val(error).by # "sync_attempts"

\* Of two attempts one has its username in the lookup and the other has
\* not: the payload has the record of the first.
C17_Witness ==
    /\ AttemptsPrepared
    /\ Len(assignment_attempts) = 2
    /\ Len(payload) = 1
    /\ Cardinality(MappedAttempts) = 1

(***************************************************************************)
(* Properties of MainSpec                                                  *)
(***************************************************************************)

\* The writers in the order of the claim, and the place of each.
WriterOrder == <<"sync_assignments", "sync_students", "sync_grades", "sync_attempts">>
Position(w) == CHOOSE i \in 1..Len(WriterOrder) : WriterOrder[i] = w

\* An operation has returned without raising; it has not started.
Finished(o) == result[o] \in {"returned", "nothing", "unsent"}
Untouched(o) == result[o] = "none"

\* This step sends an upsert of the writer w; it sends a request on the
\* leaderboard table.
Writes(w) == Len(sent') = Len(sent) + 1 /\ sent'[Len(sent')].writer = w
LeaderboardWrites ==
    \/ offered' # offered /\ offered' # <<>>
    \/ pc = "lb_clear" /\ pc' = "lb_insert"

\* This step is the failure of the last attempt the writer w has.
LastAttemptFails(w) ==
    /\ Writes(w)
    /\ sent'[Len(sent')].outcome # "ok"
    /\ attempt' = max_retries

\* run_sync has raised.
Aborted == pc \in {"raised", "exit_1"}

\* C18: the upserts of a run are sent in the order assignments, students,
\* grades, attempts, and the leaderboard requests after all of them; the
\* failure of a writer's last attempt raises SupabaseSyncError, after which
\* no request is sent and no table changes, and the only step left is
\* main's exit with status 1, while status 0 is the exit of a run without
\* an error.
C18_WriteOrderAndAbort ==
    [][/\ \A w \in Writers :
             Writes(w) =>
                 /\ \A v \in Writers : Position(v) < Position(w) => Finished(v)
                 /\ \A v \in Writers : Position(v) > Position(w) => Untouched(v)
                 /\ Untouched("refresh") /\ Untouched("clear") /\ offered = <<>>
       /\ LeaderboardWrites => \A v \in Writers : Finished(v)
       /\ \A w \in Writers :
             LastAttemptFails(w) =>
                 /\ pc' = "raised"
                 /\ result'[w] = "raised"
                 /\ ~IsNone(error') /\ Val(error').by = w
                 /\ ExceptionOf(Val(error').by) = "SupabaseSyncError"
       /\ Aborted =>
             /\ UNCHANGED <<sinkVars, sent, offered, result, error>>
             /\ pc = "raised" /\ pc' = ExitPc(1)
       /\ pc' = ExitPc(0) => IsNone(error) /\ pc = "done"
      ]_vars

\* The grades writer has failed its last attempt after the assignments and
\* the students were written, and main has exited with status 1.
C18_Witness ==
    /\ pc = "exit_1"
    /\ result["sync_assignments"] = "returned"
    /\ result["sync_students"] = "returned"
    /\ result["sync_grades"] = "raised"
    /\ Len(sent) = max_retries
    /\ Untouched("sync_attempts") /\ Untouched("refresh")

\* The classroom lookup has failed; the assignment listing has failed.
LookupFailed == result["get_classroom_id"] \notin {"none", "found"}
ListingFailed == result["get_assignments"] \notin {"none", "listed", "empty"}

\* No grade download and no repository or workflow fetch has been made, and
\* no request has been sent to the sink.
NothingFetched ==
    /\ source = <<>> /\ aPos = 0 /\ rPos = 0
    /\ assignment_info = <<>> /\ all_grades = <<>>
    /\ students_with_repo_info = <<>> /\ assignment_attempts = <<>>
    /\ assignment_fork_dates = Empty /\ assignment_fork_updated = Empty
NothingWritten ==
    /\ \A o \in Writers \cup {"refresh", "clear"} : Untouched(o)
    /\ sent = <<>> /\ offered = <<>> /\ leaderboard_data = <<>>

\* C19: a step after which the classroom lookup or the assignment listing
\* has failed (the command fails or times out, its output cannot be parsed,
\* or no classroom has the configured name) leaves run_sync raised with
\* GitHubCLIError, changes no table, and is of a run without a grade
\* download, a repository or workflow fetch, or a sink request.
C19_LookupFailureAborts ==
    [][(LookupFailed' \/ ListingFailed') =>
          /\ Aborted'
          /\ ~IsNone(error')
          /\ ExceptionOf(Val(error').by) = "GitHubCLIError"
          /\ UNCHANGED sinkVars
          /\ NothingFetched /\ NothingFetched'
          /\ NothingWritten /\ NothingWritten'
      ]_vars

\* The assignment listing has timed out in a run on a sink with rows, and
\* main has exited with status 1.
C19_Witness ==
    /\ pc = "exit_1"
    /\ result["get_classroom_id"] = "found"
    /\ result["get_assignments"] = "timeout"
    /\ students = PriorStudents

(***************************************************************************)
(* Properties of Spec: a failed grade download                             *)
(***************************************************************************)

\* The accumulators of process_assignments_in_memory, and their values
\* before the loop.
Accumulators ==
    [info |-> assignment_info, grades |-> all_grades,
     students |-> students_with_repo_info, created |-> assignment_fork_dates,
     updated |-> assignment_fork_updated, attempts |-> assignment_attempts]
NoAccumulators ==
    [info |-> <<>>, grades |-> <<>>, students |-> <<>>, created |-> Empty,
     updated |-> Empty, attempts |-> <<>>]

\* The accumulators acc after the rows r, r + 1, ... of the export df of
\* the assignment i with the key key.
RECURSIVE AfterRows(_, _, _, _, _)
AfterRows(acc, df, key, i, r) ==
    IF r > Len(df) THEN acc
    ELSE LET row == df[r]
             k == <<row.github_username, key>>
         IN  AfterRows(
                [acc EXCEPT
                    !.created = IF IsForkRow(row) THEN DictSet(@, k, RepoCreatedAt(i)) ELSE @,
                    !.updated = IF IsForkRow(row) THEN DictSet(@, k, RepoUpdatedAt(i)) ELSE @,
                    !.attempts = IF IsForkRow(row) /\ row.workflow
                                 THEN Append(@, AttemptRecord(row, key, i)) ELSE @,
                    !.students = RowAggregates(@, row, i)],
                df, key, i, r + 1)

\* The accumulators acc after the iteration for the assignment i.
AfterAssignment(acc, i) ==
    LET a == source[i]
        fmt == format_assignment_name(a.name)
    IN  IF ~(HasGrades(a) /\ fmt.ok) THEN acc
        ELSE LET info == [name |-> fmt.val,
                          points_available |-> InferPointsAvailable(a.df, fmt.val)]
                 rows == AfterRows([acc EXCEPT !.info = Append(@, info)],
                                   a.df, fmt.val, i, 1)
             IN  [rows EXCEPT
                    !.grades = @ \o GradesDf(a.df, fmt.val, rows.created, rows.updated)]

\* The accumulators after the loop over the assignments listed.
RECURSIVE AfterListing(_, _)
AfterListing(acc, listed) ==
    IF listed = <<>> THEN acc
    ELSE AfterListing(AfterAssignment(acc, Head(listed)), Tail(listed))

\* The first n assignments of the listing without those whose download
\* failed.
WithoutFailed(n) == SelectSeq([i \in 1..n |-> i], LAMBDA i : source[i].ok)

\* The download of this step returns None.
DownloadFails == pc = "download" /\ aPos' = aPos + 1 /\ ~source'[aPos'].ok

\* The key of an assignment whose download succeeded.
KeysDownloaded ==
    {format_assignment_name(source[i].name).val : i \in {j \in 1..aPos : source[j].ok}}

\* C20: a download that returns None leaves every accumulator as it is and
\* the loop goes on with the next assignment; outside the loop over the
\* rows the accumulators, from which the writers take their records, are
\* those of the listing without the failed assignments, and every record
\* in them has the key of an assignment whose download succeeded.
C20_FailedDownloadSkipped ==
    /\ [](pc # "rows" =>
            /\ Accumulators = AfterListing(NoAccumulators, WithoutFailed(aPos))
            /\ \A i \in 1..Len(assignment_info) : assignment_info[i].name \in KeysDownloaded
            /\ \A i \in 1..Len(all_grades) : all_grades[i].assignment_name \in KeysDownloaded
            /\ \A i \in 1..Len(assignment_attempts) :
                  assignment_attempts[i].assignment_name \in KeysDownloaded
            /\ Len(assignment_info) = Len(WithoutFailed(aPos)))
    /\ [][DownloadFails => pc' = "download" /\ UNCHANGED accVars]_vars

\* The first download failed and the second assignment, with a fork that
\* has workflow runs, was written to the four tables.
C20_Witness ==
    /\ Len(source) = 2
    /\ ~source[1].ok /\ source[2].ok
    /\ assignment_attempts # <<>>
    /\ result["sync_attempts"] = "returned"
    /\ result["refresh"] = "returned"
    /\ pc = "done"

(***************************************************************************)
(* Properties of Spec: the fetches of a row                                *)
(***************************************************************************)

\* The assignments whose iteration has ended with grades appended.
FinishedAssignments ==
    {i \in 1..aPos : HasGrades(source[i]) /\ (i < aPos \/ pc # "rows")}

\* The number of grade rows appended before those of the assignment i.
RECURSIVE GradeOffset(_)
GradeOffset(i) ==
    IF i <= 1 THEN 0
    ELSE GradeOffset(i - 1)
            + IF HasGrades(source[i - 1]) THEN Len(source[i - 1].df) ELSE 0

\* get_repository_info or get_workflow_runs returned None for the row.
FetchFailed(row) == row.url # "none" /\ (row.repo = "fail" \/ ~row.workflow)

\* This step is the iteration for a row one of whose fetches failed.
FailedRowStep == pc = "rows" /\ rPos' = rPos + 1 /\ FetchFailed(source[aPos].df[rPos])

\* C21: the iteration for a row whose repository or workflow fetch failed
\* ends in the row loop at the next row, and every row of an assignment
\* whose iteration has ended, those with a failed fetch and those after
\* them, has its grade record with its points_awarded in all_grades, a
\* fork among them its fork dates.
C21_FetchFailureKeepsGrade ==
    /\ [](\A i \in FinishedAssignments :
            \A r \in 1..Len(source[i].df) :
                LET row == source[i].df[r]
                    key == format_assignment_name(source[i].name).val
                IN  /\ GradeOffset(i) + r <= Len(all_grades)
                    /\ all_grades[GradeOffset(i) + r].github_username = row.github_username
                    /\ all_grades[GradeOffset(i) + r].assignment_name = key
                    /\ all_grades[GradeOffset(i) + r].points_awarded = row.points_awarded
                    /\ IsForkRow(row) =>
                          ~IsNone(all_grades[GradeOffset(i) + r].fork_created_at))
    /\ [][FailedRowStep =>
            /\ pc' = "rows"
            /\ UNCHANGED <<aPos, all_grades, assignment_info, error, failed>>]_vars

\* Both fetches failed for the first row of an export, and its second row,
\* a fork with workflow runs, was processed: two grades, one attempt.
C21_Witness ==
    /\ pc = "download"
    /\ aPos = 1
    /\ HasGrades(source[1])
    /\ Len(source[1].df) = 2
    /\ source[1].df[1].url = "url" /\ source[1].df[1].repo = "fail"
    /\ ~source[1].df[1].workflow
    /\ IsForkRow(source[1].df[2]) /\ source[1].df[2].workflow
    /\ Len(all_grades) = 2
    /\ Len(assignment_attempts) = 1

(***************************************************************************)
(* Properties of ParseSpec                                                 *)
(***************************************************************************)

\* The lines of the output and its data lines, those after the header.
OutputLines == Split(Strip(listing), Newline)
DataLines == SubSeq(OutputLines, HeaderLines + 1, Len(OutputLines))
IsBlank(line) == Strip(line) = <<>>
FieldsOf(line) == Split(line, Tab)

\* The triples of the non-blank lines of ls.
RECURSIVE TriplesOf(_)
TriplesOf(ls) ==
    IF ls = <<>> THEN <<>>
    ELSE (IF IsBlank(Head(ls)) THEN <<>>
          ELSE <<<<FieldsOf(Head(ls))[1], FieldsOf(Head(ls))[2], FieldsOf(Head(ls))[7]>>>>)
            \o TriplesOf(Tail(ls))

\* The output is a format error: fewer than four lines, or a non-blank
\* data line of fewer than seven fields.
TooFewLines == Len(OutputLines) < MinLines
HasShortLine ==
    \E i \in 1..Len(DataLines) :
        ~IsBlank(DataLines[i]) /\ Len(FieldsOf(DataLines[i])) < MinFields

\* C22: the parser raises DataValidationError for an output of fewer than
\* four lines and for one with a non-blank data line of fewer than seven
\* tab-separated fields, and returns (field 0, field 1, field 6) of every
\* non-blank data line otherwise.
C22_ShortLineIsFormatError ==
    ~IsNone(parsed) =>
        IF TooFewLines \/ HasShortLine
        THEN Val(parsed) = Raised("DataValidationError")
        ELSE Val(parsed) = Returned(TriplesOf(DataLines))

(***************************************************************************)
(* Properties of Spec: what the ranker reads                               *)
(***************************************************************************)

\* The grade rows of the student u in the sink, and from them the sum of
\* the points awarded and the number of assignments graded.
SinkGradesOf(u) == {k \in DOMAIN grades : k[1] = u}
SinkScoreOf(u) ==
    SumFn([k \in SinkGradesOf(u) |->
              IF IsNone(grades[k].points_awarded) THEN 0 ELSE Val(grades[k].points_awarded)])
SinkCompletedOf(u) == Cardinality({k[2] : k \in SinkGradesOf(u)})

\* The points an assignment counts for: the stored points_available when
\* positive, else the largest points_awarded of its grade rows in the sink
\* when positive, else 0.
SinkAwardedFor(name) ==
    {Val(grades[k].points_awarded) :
        k \in {j \in DOMAIN grades : j[2] = name /\ ~IsNone(grades[j].points_awarded)}}
SinkPointsFor(name) ==
    IF name \in DOMAIN assignments /\ ~IsNone(assignments[name].points_available)
          /\ Val(assignments[name].points_available) > 0
    THEN Val(assignments[name].points_available)
    ELSE IF \E v \in SinkAwardedFor(name) : v > 0
    THEN CHOOSE m \in SinkAwardedFor(name) : \A v \in SinkAwardedFor(name) : v <= m
    ELSE 0
SinkPossibleOf(u) == SumFn([k \in SinkGradesOf(u) |-> SinkPointsFor(k[2])])

\* The student came from an earlier run and is not in the source of this one.
FromEarlierRunOnly(u) ==
    /\ u \in DOMAIN students
    /\ \A i \in 1..Len(all_grades) : all_grades[i].github_username # u

\* C23: once the ranker has read the tables, leaderboard_data has exactly
\* one entry for every student of the students table, those of earlier
\* runs included, with total_score, total_possible and
\* assignments_completed computed from all grade rows of that student in
\* the sink; after a refresh of a run without a failed sink operation the
\* leaderboard table has a row for each of them with these values.
C23_RanksWholeSink ==
    /\ leaderboard_data # <<>> =>
          /\ {leaderboard_data[i].github_username : i \in 1..Len(leaderboard_data)}
                = DOMAIN students
          /\ Len(leaderboard_data) = Cardinality(DOMAIN students)
          /\ \A i \in 1..Len(leaderboard_data) :
                LET e == leaderboard_data[i] IN
                /\ e.total_score = SinkScoreOf(e.github_username)
                /\ e.total_possible = SinkPossibleOf(e.github_username)
                /\ e.assignments_completed = SinkCompletedOf(e.github_username)
    /\ (RefreshReturned /\ ~failed) =>
          /\ DOMAIN leaderboard = DOMAIN students
          /\ \A u \in DOMAIN leaderboard :
                /\ leaderboard[u].total_score = SinkScoreOf(u)
                /\ leaderboard[u].total_possible = SinkPossibleOf(u)
                /\ leaderboard[u].assignments_completed = SinkCompletedOf(u)

\* The sink held u1 with a grade of 5 points from an earlier run, the run
\* graded u2 only, and the refreshed leaderboard has both.
C23_Witness ==
    /\ RefreshReturned /\ ~failed
    /\ FromEarlierRunOnly("u1")
    /\ "u2" \in DOMAIN leaderboard
    /\ "u1" \in DOMAIN leaderboard
    /\ leaderboard["u1"].total_score = 5

(***************************************************************************)
(* Properties of RankSpec: the positions                                   *)
(***************************************************************************)

\* C24: ranking_position is the 1-based index in leaderboard_data, the
\* positions of the n ranked students are 1..n with one username each, and
\* every order of the student rows gives the leaderboard_data computed.
C24_RankingDeterministic ==
    pc = "lb_clear" =>
        /\ \A i \in 1..Len(leaderboard_data) : leaderboard_data[i].ranking_position = i
        /\ Len(leaderboard_data) = Cardinality(DOMAIN students)
        /\ \A i, j \in 1..Len(leaderboard_data) :
              leaderboard_data[i].github_username = leaderboard_data[j].github_username
                  => i = j
        /\ \A order \in RowOrders(students) :
              ComputeLeaderboardIn(order, students, assignments, grades) = leaderboard_data

\* Three students with the same time and percentage have been ranked, by
\* username alone.
C24_Witness ==
    /\ pc = "lb_clear"
    /\ Len(leaderboard_data) = 3
    /\ \A i \in 1..3 :
          /\ leaderboard_data[i].resolution_time_hours = leaderboard_data[1].resolution_time_hours
          /\ leaderboard_data[i].percentage = leaderboard_data[1].percentage
    /\ [i \in 1..3 |-> leaderboard_data[i].github_username] = <<"u1", "u2", "u3">>

(***************************************************************************)
(* Properties of RankSpec: the points of an assignment                     *)
(***************************************************************************)

\* The names the ranker meets: those of the assignments table and those of
\* the grade rows.
KnownNames == DOMAIN assignments \cup {k[2] : k \in DOMAIN grades}

\* The stored points_available of the name is absent or zero.
StoredMissing(name) ==
    \/ name \notin DOMAIN assignments
    \/ IsNone(assignments[name].points_available)
    \/ Val(assignments[name].points_available) = 0

\* The positive points_awarded of the grade rows of the name.
PositiveAwards(name) ==
    {v \in SinkAwardedFor(name) : v > 0}

\* The resolved points of the name, None when unresolved.
ResolvedPoints(name) ==
    IF ~StoredMissing(name) THEN assignments[name].points_available
    ELSE IF PositiveAwards(name) = {} THEN None
    ELSE Some(CHOOSE m \in PositiveAwards(name) : \A v \in PositiveAwards(name) : v <= m)

\* The entry of the student u in leaderboard_data.
RankedEntry(u) ==
    leaderboard_data[CHOOSE i \in 1..Len(leaderboard_data) :
                        leaderboard_data[i].github_username = u]

\* C25: total_possible of every entry is the sum, over the grade rows of
\* the student, of the resolved points of the row's assignment, 0 where
\* they are unresolved.
C25_TotalPossible ==
    pc = "lb_clear" =>
        \A u \in DOMAIN students :
            RankedEntry(u).total_possible =
                SumFn([k \in SinkGradesOf(u) |->
                          IF IsNone(ResolvedPoints(k[2])) THEN 0
                          ELSE Val(ResolvedPoints(k[2]))])

\* u1 has a grade on an assignment with 10 stored points and one on an
\* assignment without points or positive grade: total_possible is 10.
C25_Witness ==
    /\ pc = "lb_clear"
    /\ Cardinality(SinkGradesOf("u1")) = 2
    /\ \E k \in SinkGradesOf("u1") : IsNone(ResolvedPoints(k[2]))
    /\ \E k \in SinkGradesOf("u1") : ResolvedPoints(k[2]) = Some(10)
    /\ RankedEntry("u1").total_possible = 10

\* C26: the ranker's points of a name whose stored points_available is
\* absent or zero are the largest points_awarded of the grade rows of that
\* name, and the name has no points exactly when none of its grade rows has
\* a positive points_awarded; stored positive points stay.
C26_PointsResolution ==
    pc = "lb_clear" =>
        LET ap == assignment_points(assignments, grades) IN
        \A name \in KnownNames :
            /\ name \in DOMAIN ap <=> ~IsNone(ResolvedPoints(name))
            /\ name \in DOMAIN ap => ap[name] = Val(ResolvedPoints(name))
            /\ (StoredMissing(name) /\ name \in DOMAIN ap) =>
                  /\ \E k \in DOMAIN grades :
                        k[2] = name /\ grades[k].points_awarded = Some(ap[name])
                  /\ \A k \in DOMAIN grades :
                        (k[2] = name /\ ~IsNone(grades[k].points_awarded)) =>
                            Val(grades[k].points_awarded) <= ap[name]

\* The first assignment is stored with 0 points and has grades of 5 and 20,
\* the second has 10 points and a grade of 20: the ranked student has
\* 20 + 10 possible points.
C26_Witness ==
    /\ pc = "lb_clear"
    /\ RankName(1) \in DOMAIN assignments
    /\ assignments[RankName(1)].points_available = Some(0)
    /\ SinkAwardedFor(RankName(1)) = {5, 20}
    /\ <<"u1", RankName(2)>> \in DOMAIN grades
    /\ grades[<<"u1", RankName(2)>>].points_awarded = Some(20)
    /\ <<"u1", RankName(1)>> \in DOMAIN grades
    /\ RankName(2) \in DOMAIN assignments
    /\ assignments[RankName(2)].points_available = Some(10)
    /\ RankedEntry("u1").total_possible = 30

(***************************************************************************)
(* Properties of Spec: has_fork from the reconciler to the ranker          *)
(***************************************************************************)

\* The run has written its students and the ranker has read the tables.
StudentsWrittenAndRanked ==
    /\ result["sync_students"] = "returned"
    /\ leaderboard_data # <<>>

\* C27: for every aggregate the run wrote, the has_fork of the student row
\* the ranker read is the has_fork of the aggregate, and the entry of a
\* student reconciled with has_fork and both timestamps has a
\* resolution_time_hours.
C27_HasForkReachesRanker ==
    StudentsWrittenAndRanked =>
        \A i \in 1..Len(students_with_repo_info) :
            LET agg == students_with_repo_info[i]
                u == agg.github_username
            IN  /\ u \in DOMAIN students
                /\ students[u].has_fork = agg.has_fork
                /\ (agg.has_fork /\ ~IsNone(agg.fork_created_at)
                        /\ ~IsNone(agg.last_updated_at)) =>
                      ~IsNone(RankedEntry(u).resolution_time_hours)

(***************************************************************************)
(* Properties of Spec: how a writer with records ends                      *)
(***************************************************************************)

\* The call of the writer w had records to write and has just returned
\* without an exception.
ReturnedWithRecords(w) ==
    /\ pc = After(w)
    /\ phase = "prepare"
    /\ payload # <<>>
    /\ result[w] \in {"returned", "unsent"}

\* C28: whatever max_retries is, a writer that had records to write has
\* returned without an exception only after an upsert of its payload that
\* succeeded, and a writer that has raised has sent a failed upsert or
\* could not read its mappings.
C28_ReturnsOnlyAfterSuccess ==
    \A w \in Writers :
        /\ ReturnedWithRecords(w) =>
              \E i \in 1..Len(sent) :
                  /\ sent[i].writer = w
                  /\ sent[i].outcome = "ok"
                  /\ sent[i].payload = payload
        /\ result[w] = "raised" =>
              /\ ~IsNone(error) /\ Val(error).by = w
              /\ ExceptionOf(w) = "SupabaseSyncError"

(***************************************************************************)
(* Properties of RankSpec: the range of the percentage                     *)
(***************************************************************************)

\* No stored or awarded points of the tables are negative.
NonNegativePoints ==
    /\ \A n \in DOMAIN assignments :
          IsNone(assignments[n].points_available) \/ Val(assignments[n].points_available) >= 0
    /\ \A k \in DOMAIN grades :
          IsNone(grades[k].points_awarded) \/ Val(grades[k].points_awarded) >= 0

\* C29: on tables without negative points the percentage of every
\* leaderboard entry is between 0 and 100.
C29_PercentageInRange ==
    (pc = "lb_clear" /\ NonNegativePoints) =>
        \A i \in 1..Len(leaderboard_data) :
            /\ leaderboard_data[i].percentage >= 0
            /\ leaderboard_data[i].percentage <= 100

(***************************************************************************)
(* Properties of MainSpec: a run without grade data                        *)
(***************************************************************************)

\* No assignment processed so far has given grade data.
NoGradeData == \A i \in 1..Len(source) : ~HasGrades(source[i])

\* The loop over the assignments has ended.
LoopEnded ==
    /\ result["get_assignments"] = "listed"
    /\ pc \notin {"download", "rows"}

\* C30: while no assignment of the run has given grade data no step
\* changes a table, and a run whose loop has ended without grade data has
\* sent no request to the sink and has returned from run_sync without an
\* exception.
C30_NoGradesNoWrite ==
    /\ [][NoGradeData' => UNCHANGED sinkVars]_vars
    /\ []((LoopEnded /\ NoGradeData) =>
            /\ pc \in {"done", "exit_0"}
            /\ NothingWritten
            /\ IsNone(error)
            /\ ~failed)

\* Both downloads of a run on a sink with rows have failed, and main has
\* ended with status 0.
C30_Witness ==
    /\ pc = "exit_0"
    /\ Len(source) = 2
    /\ NoGradeData
    /\ students = PriorStudents
    /\ leaderboard = PriorLeaderboard

====
